---------------------------- MODULE Spec2Model ----------------------------
(***************************************************************************)
(* Model of live-odds-monitor: the opportunity scorer, the fade-direction  *)
(* decision and the live poll loop of scripts/watch_live.py, and the       *)
(* HistoricalTracker / Storage bet life cycle of src/live_odds_monitor.    *)
(*                                                                         *)
(* Number conventions.  Point spreads move in half points, so a spread is  *)
(* an integer count of half points (Pts(3) is 3.0, Pts(3) + 1 is 3.5).     *)
(* Game scores and margins are integers.  A pct_change is the exact        *)
(* rational num/den (den > 0); every threshold it is compared with is a    *)
(* dyadic rational, so the comparisons agree with the float comparisons    *)
(* of the source.  A nullable value is <<>> (None) or <<v>>.               *)
(***************************************************************************)
EXTENDS Integers, Sequences, FiniteSets, TLC

VARIABLES
    call,             \* the pure function under application and its arguments
    ret,              \* its return value, None until it has returned
    clock,            \* wall-clock time, in hours
    games,            \* table games: game id -> None or Some(row)
    game_results,     \* table game_results: game id -> None or Some(row)
    alerts,           \* table alerts: the rows, alerts[i] has id i
    bet_outcomes,     \* table bet_outcomes (legacy): bet_outcomes[i] has id i
    bets,             \* table bets (unified): bets[i] has id i
    outcome_writes,   \* outcome_writes[i]: update_bet_outcome calls for bet id i
    line_snapshots,   \* table line_snapshots (legacy), in timestamp order
    odds_snapshots,   \* table odds_snapshots (unified), in timestamp order
    first_opening,    \* per game: the arguments of the first call of
                      \* record_opening_line, and whether a later call was made
    pc,               \* where main of watch_live.py stands in its poll loop
    live_games,       \* the live games of this poll still to be monitored
    espn_game_cache,  \* per sport: the game clocks ESPN gave at this poll
    opening_lines,    \* in-memory opening lines: game id -> None or Some(line)
    opening_line_cache, \* table opening_line_cache: game id -> None or Some(row)
    stopped_games,    \* games no longer watched
    alerted_games,    \* games an alert has been recorded for
    empty_poll_count, \* consecutive polls that found no live game
    credit_stats,     \* api_calls, cache_hits, skipped_spreads
    busy_polls,       \* polls so far that found a live game
    polls,            \* polls so far
    alert_polls,      \* per game: polls so far that scored it at or above
                      \* MIN_ALERT_SCORE
    scores_final,     \* the games the scores API reports as completed
    obtained,         \* per game: the first opening line a call of
                      \* fetch_opening_line returned (kept by SpecFetch)
    simulated_bets,   \* table simulated_bets: the rows, row i has id i
    monitor_games,    \* OddsMonitor.games: game id -> None or Some(Game)
    send_outcome,     \* per game: what the last round of OddsMonitor's poll
                      \* for it did with an alert ("none": none produced,
                      \* "failed": no handler delivered it, "sent")
    historical_odds_cache, \* table historical_odds_cache: per game and
                      \* snapshot type, None or Some(row of fanduel)
    lines_store,      \* an OpeningLinesStore (_cache, _index, _pending) and
                      \* the Parquet files under its base_path
    first_save        \* per game: the line of the first call of save for it
                      \* on the present OpeningLinesStore, None before

storeVars == <<lines_store, first_save>>

pureVars == <<call, ret>>
dbVars == <<games, game_results, alerts, bet_outcomes, bets, outcome_writes>>
snapVars == <<line_snapshots, odds_snapshots, first_opening>>
processVars == <<pc, live_games, espn_game_cache, opening_lines,
                 opening_line_cache, stopped_games, alerted_games,
                 empty_poll_count, credit_stats, busy_polls, polls,
                 alert_polls, scores_final, obtained, simulated_bets,
                 monitor_games, send_outcome, historical_odds_cache>>
liveVars == <<processVars, storeVars>>

vars == <<call, ret, clock, games, game_results, alerts, bet_outcomes, bets,
          outcome_writes, line_snapshots, odds_snapshots, first_opening,
          pc, live_games, espn_game_cache, opening_lines, opening_line_cache,
          stopped_games, alerted_games, empty_poll_count, credit_stats,
          busy_polls, polls, alert_polls, scores_final, obtained, simulated_bets, monitor_games, send_outcome, historical_odds_cache, storeVars>>

---------------------------------------------------------------------------
(* Generic helpers *)

None == <<>>
Some(v) == <<v>>
IsNone(v) == v = <<>>
Val(v) == v[1]

Abs(x) == IF x < 0 THEN -x ELSE x
Max2(a, b) == IF a >= b THEN a ELSE b
Min2(a, b) == IF a <= b THEN a ELSE b

\* a spread of x whole points, in half points
Pts(x) == 2 * x

\* x whole minutes, in half minutes
Mins(x) == 2 * x

\* the rational n/d, d > 0
Rat(n, d) == [num |-> n, den |-> d]
\* p >= n/d
RatGE(p, n, d) == p.num * d >= n * p.den

---------------------------------------------------------------------------
(* scripts/watch_live.py: calculate_opportunity_score *)

SPORTS == <<"basketball_nba", "basketball_ncaab">>

\* "nba" in sport.lower(), evaluated for each sport key the model uses
HasNba(sport) ==
    CASE sport = "basketball_nba" -> TRUE
      [] sport = "basketball_wnba" -> TRUE
      [] sport = "basketball_ncaab" -> FALSE
      [] OTHER -> FALSE

\* LineScore with the 75% step taken only above 0.75, not at it
LineScoreStrict(pct_change) ==
    IF RatGE(pct_change, 5, 2) THEN 35
    ELSE IF RatGE(pct_change, 2, 1) THEN 30
    ELSE IF RatGE(pct_change, 3, 2) THEN 25
    ELSE IF RatGE(pct_change, 1, 1) THEN 20
    ELSE IF ~RatGE(Rat(3, 4), pct_change.num, pct_change.den) THEN 15
    ELSE 0

\* LineScore without its last branch: every move below 100% scores 15
LineScoreNoFloor(pct_change) ==
    IF RatGE(pct_change, 5, 2) THEN 35
    ELSE IF RatGE(pct_change, 2, 1) THEN 30
    ELSE IF RatGE(pct_change, 3, 2) THEN 25
    ELSE IF RatGE(pct_change, 1, 1) THEN 20
    ELSE 15

LineScore(pct_change) ==
    IF RatGE(pct_change, 5, 2) THEN 35
    ELSE IF RatGE(pct_change, 2, 1) THEN 30
    ELSE IF RatGE(pct_change, 3, 2) THEN 25
    ELSE IF RatGE(pct_change, 1, 1) THEN 20
    ELSE IF RatGE(pct_change, 3, 4) THEN 15
    ELSE 0

\* TimeScore with the lower edge of each optimal range exclusive
TimeScoreOpenEdge(mins_remaining, sport) ==
    IF IsNone(mins_remaining) THEN 0
    ELSE LET m == Val(mins_remaining) IN
         IF HasNba(sport)
         THEN IF Mins(15) < m /\ m <= Mins(30) THEN 30
              ELSE IF \/ (Mins(12) <= m /\ m <= Mins(15))
                      \/ (Mins(30) < m /\ m <= Mins(36)) THEN 20
              ELSE IF m < Mins(12) THEN 5
              ELSE 10
         ELSE IF Mins(12) < m /\ m <= Mins(25) THEN 30
              ELSE IF \/ (Mins(10) <= m /\ m <= Mins(12))
                      \/ (Mins(25) < m /\ m <= Mins(30)) THEN 20
              ELSE IF m < Mins(10) THEN 5
              ELSE 10

\* mins_remaining is None or Some(a count of half minutes)
TimeScore(mins_remaining, sport) ==
    IF IsNone(mins_remaining) THEN 0
    ELSE LET m == Val(mins_remaining) IN
         IF HasNba(sport)
         THEN IF Mins(15) <= m /\ m <= Mins(30) THEN 30
              ELSE IF \/ (Mins(12) <= m /\ m < Mins(15))
                      \/ (Mins(30) < m /\ m <= Mins(36)) THEN 20
              ELSE IF m < Mins(12) THEN 5
              ELSE 10
         ELSE IF Mins(12) <= m /\ m <= Mins(25) THEN 30
              ELSE IF \/ (Mins(10) <= m /\ m < Mins(12))
                      \/ (Mins(25) < m /\ m <= Mins(30)) THEN 20
              ELSE IF m < Mins(10) THEN 5
              ELSE 10

\* SpreadScore with the spread's sign kept
SpreadScoreSigned(opening_spread) ==
    LET abs_spread == opening_spread IN
    IF abs_spread <= Pts(2) THEN 15
    ELSE IF abs_spread <= Pts(3) THEN 12
    ELSE IF abs_spread <= Pts(5) THEN 8
    ELSE IF abs_spread <= Pts(7) THEN 5
    ELSE IF abs_spread <= Pts(10) THEN 3
    ELSE 0

SpreadScore(opening_spread) ==
    LET abs_spread == Abs(opening_spread) IN
    IF abs_spread <= Pts(2) THEN 15
    ELSE IF abs_spread <= Pts(3) THEN 12
    ELSE IF abs_spread <= Pts(5) THEN 8
    ELSE IF abs_spread <= Pts(7) THEN 5
    ELSE IF abs_spread <= Pts(10) THEN 3
    ELSE 0

DiffScore(score_diff) ==
    LET abs_diff == Abs(score_diff) IN
    IF abs_diff <= 5 THEN 10
    ELSE IF abs_diff <= 10 THEN 7
    ELSE IF abs_diff <= 15 THEN 4
    ELSE 0

SportScore(sport) == IF HasNba(sport) THEN 10 ELSE 5

\* Grade with the A boundary exclusive
GradeAbove(score) ==
    IF score > 80 THEN "A"
    ELSE IF score >= 70 THEN "B"
    ELSE IF score >= 60 THEN "C"
    ELSE "D"

Grade(score) ==
    IF score >= 80 THEN "A"
    ELSE IF score >= 70 THEN "B"
    ELSE IF score >= 60 THEN "C"
    ELSE "D"

\* calculate_opportunity_score with the score-differential points left out
\* of the running total
calculate_opportunity_score_nodiff(pct_change, mins_remaining, opening_spread, score_diff, sport) ==
    LET line_score   == LineScore(pct_change)
        time_score   == TimeScore(mins_remaining, sport)
        spread_score == SpreadScore(opening_spread)
        diff_score   == DiffScore(score_diff)
        sport_score  == SportScore(sport)
        score == (((0 + line_score) + time_score) + spread_score) + sport_score
    IN  [ total_score |-> score,
          breakdown   |-> [ line_move      |-> line_score,
                            time_remaining |-> time_score,
                            opening_spread |-> spread_score,
                            score_diff     |-> diff_score,
                            sport          |-> sport_score ],
          grade       |-> Grade(score) ]

\* score starts at 0 and each factor is added to it in turn
calculate_opportunity_score(pct_change, mins_remaining, opening_spread, score_diff, sport) ==
    LET line_score   == LineScore(pct_change)
        time_score   == TimeScore(mins_remaining, sport)
        spread_score == SpreadScore(opening_spread)
        diff_score   == DiffScore(score_diff)
        sport_score  == SportScore(sport)
        score == ((((0 + line_score) + time_score) + spread_score)
                     + diff_score) + sport_score
    IN  [ total_score |-> score,
          breakdown   |-> [ line_move      |-> line_score,
                            time_remaining |-> time_score,
                            opening_spread |-> spread_score,
                            score_diff     |-> diff_score,
                            sport          |-> sport_score ],
          grade       |-> Grade(score) ]

---------------------------------------------------------------------------
(* Team names, and the characters of each, on which str.split and
   str.startswith act as they do in the source. *)

DUKE    == "Duke"
IOWA    == "Iowa"
IOWA_ST == "Iowa St"

TeamNames == {DUKE, IOWA, IOWA_ST}

Chars(name) ==
    CASE name = "Duke"    -> <<"D", "u", "k", "e">>
      [] name = "Iowa"    -> <<"I", "o", "w", "a">>
      [] name = "Iowa St" -> <<"I", "o", "w", "a", " ", "S", "t">>

\* str.split()[0]: the first whitespace-separated word of a name that has
\* one (every name of TeamNames does)
RECURSIVE SkipSpaces(_)
SkipSpaces(s) ==
    IF s = <<>> THEN <<>>
    ELSE IF Head(s) = " " THEN SkipSpaces(Tail(s)) ELSE s

RECURSIVE UntilSpace(_)
UntilSpace(s) ==
    IF s = <<>> THEN <<>>
    ELSE IF Head(s) = " " THEN <<>> ELSE <<Head(s)>> \o UntilSpace(Tail(s))

FirstWord(s) == UntilSpace(SkipSpaces(s))

\* s.startswith(prefix)
StartsWith(s, prefix) ==
    /\ Len(prefix) <= Len(s)
    /\ SubSeq(s, 1, Len(prefix)) = prefix

\* the characters of the score texts the model uses
Digits(text) ==
    CASE text = "0" -> <<"0">>
      [] text = "1" -> <<"1">>
      [] text = "2" -> <<"2">>
      [] text = "10" -> <<"1", "0">>

\* int(text) of a string of decimal digits
DigitValue(c) ==
    CASE c = "0" -> 0 [] c = "1" -> 1 [] c = "2" -> 2 [] c = "3" -> 3
      [] c = "4" -> 4 [] c = "5" -> 5 [] c = "6" -> 6 [] c = "7" -> 7
      [] c = "8" -> 8 [] c = "9" -> 9

RECURSIVE IntOfDigits(_, _)
IntOfDigits(text, acc) ==
    IF text = <<>> THEN acc
    ELSE IntOfDigits(Tail(text), 10 * acc + DigitValue(Head(text)))

int(digits) == IntOfDigits(digits, 0)

---------------------------------------------------------------------------
(* The games the odds and score feeds know: what the API reports of them *)

GameIds == {"g1", "g2"}

ApiGame(g) ==
    CASE g = "g1" -> [ id |-> "g1", home_team |-> DUKE, away_team |-> IOWA,
                       sport |-> "basketball_nba", commence_time |-> -3 ]
      [] g = "g2" -> [ id |-> "g2", home_team |-> IOWA_ST, away_team |-> IOWA,
                       sport |-> "basketball_ncaab", commence_time |-> -3 ]

\* last hour the clock reaches; the games began 3 hours before hour 0
MaxClock == 6
\* hours the clock advances by in one step
ClockStep == 3

Tick ==
    /\ clock + ClockStep <= MaxClock
    /\ clock' = clock + ClockStep
    /\ UNCHANGED <<pureVars, liveVars, dbVars, snapVars>>

---------------------------------------------------------------------------
(* src/live_odds_monitor/db/storage.py: the tables of the bet life cycle *)

\* models.Game: sport defaults to "basketball_ncaab" when not given
Game(id, home_team, away_team, commence_time, sport) ==
    [ id |-> id, home_team |-> home_team, away_team |-> away_team,
      commence_time |-> commence_time,
      sport |-> IF IsNone(sport) THEN "basketball_ncaab" ELSE Val(sport) ]

\* INSERT OR REPLACE INTO games
save_game(tbl, game) ==
    [tbl EXCEPT ![game.id] =
        Some([ home_team |-> game.home_team, away_team |-> game.away_team,
               commence_time |-> game.commence_time, sport |-> game.sport ])]

\* INSERT OR REPLACE INTO game_results
save_game_result(tbl, game_id, final_score_home, final_score_away) ==
    [tbl EXCEPT ![game_id] =
        Some([ final_score_home |-> final_score_home,
               final_score_away |-> final_score_away ])]

get_game_result(game_id) == game_results[game_id]

\* get_games_needing_results without the condition that the game has no
\* result yet
get_games_past_cutoff ==
    LET cutoff == clock - 3 IN
    { g \in GameIds : ~IsNone(games[g]) /\ Val(games[g]).commence_time < cutoff }

\* games LEFT JOIN game_results WHERE no result AND commence_time < now - 3h
get_games_needing_results ==
    LET cutoff == clock - 3 IN
    { g \in GameIds : /\ ~IsNone(games[g])
                      /\ IsNone(game_results[g])
                      /\ Val(games[g]).commence_time < cutoff }

\* INSERT INTO alerts; returns the new table, the new row's id is its length
save_alert_with_id(tbl, game_id, alert_type) ==
    Append(tbl, [game_id |-> game_id, alert_type |-> alert_type])

\* INSERT INTO bet_outcomes with final_margin, covered, profit NULL
LegacyBetRow(game_id, bet_type, bet_team, bet_spread, opening_spread, pct_change, mins_remaining, alert_id) ==
    [ game_id |-> game_id, alert_id |-> alert_id, bet_type |-> bet_type,
      bet_team |-> bet_team, bet_spread |-> bet_spread,
      mins_remaining |-> mins_remaining, opening_spread |-> opening_spread,
      pct_change |-> pct_change,
      final_margin |-> None, covered |-> None, profit |-> None ]

\* INSERT INTO bets with source 'live' and strategy = bet_type
UnifiedBetRow(game_id, bet_type, bet_team, bet_spread, opening_spread, pct_change, mins_remaining, alert_id) ==
    [ game_id |-> game_id, source |-> "live", strategy |-> bet_type,
      bet_team |-> bet_team, bet_spread |-> bet_spread,
      opening_spread |-> opening_spread, pct_change |-> pct_change,
      mins_remaining |-> mins_remaining, alert_id |-> alert_id,
      final_margin |-> None, covered |-> None, profit |-> None ]

\* the three tables a bet touches, as one value
BetTables(legacy, unified, writes) ==
    [legacy |-> legacy, unified |-> unified, writes |-> writes]

\* UPDATE bet_outcomes ... WHERE id = bet_id, then UPDATE bets ... WHERE
\* alert_id = that row's alert_id AND source = 'live' when the row has one
update_bet_outcome(t, bet_id, final_margin, covered, profit) ==
    LET cov == IF covered THEN 1 ELSE 0
        hit == bet_id \in DOMAIN t.legacy
        legacy2 == IF hit
                   THEN [t.legacy EXCEPT ![bet_id].final_margin = Some(final_margin),
                                         ![bet_id].covered = Some(cov),
                                         ![bet_id].profit = Some(profit)]
                   ELSE t.legacy
        aid == IF hit THEN t.legacy[bet_id].alert_id ELSE None
        unified2 ==
            IF ~IsNone(aid) /\ Val(aid) # 0
            THEN [ i \in DOMAIN t.unified |->
                     IF t.unified[i].alert_id = aid /\ t.unified[i].source = "live"
                     THEN [t.unified[i] EXCEPT !.final_margin = Some(final_margin),
                                               !.covered = Some(cov),
                                               !.profit = Some(profit)]
                     ELSE t.unified[i] ]
            ELSE t.unified
    IN  BetTables(legacy2, unified2,
                  IF hit THEN [t.writes EXCEPT ![bet_id] = @ + 1] ELSE t.writes)

\* a bet_outcomes row joined with its game: SELECT b.*, g.home_team, g.away_team
JoinedBet(tbl, i) ==
    [ id |-> i, game_id |-> tbl[i].game_id, bet_team |-> tbl[i].bet_team,
      bet_spread |-> tbl[i].bet_spread,
      home_team |-> Val(games[tbl[i].game_id]).home_team,
      away_team |-> Val(games[tbl[i].game_id]).away_team ]

\* the ids of `keep` from i to n, ascending (the order of a rowid scan)
RECURSIVE IdsAscending(_, _, _)
IdsAscending(keep, i, n) ==
    IF i > n THEN <<>>
    ELSE (IF i \in keep THEN <<i>> ELSE <<>>) \o IdsAscending(keep, i + 1, n)

\* get_pending_bets without the covered IS NULL condition
get_all_joined_bets(tbl) ==
    IdsAscending({ i \in DOMAIN tbl : ~IsNone(games[tbl[i].game_id]) },
                 1, Len(tbl))

\* bet_outcomes JOIN games WHERE covered IS NULL, as the ids of the rows
get_pending_bets(tbl) ==
    IdsAscending({ i \in DOMAIN tbl : /\ ~IsNone(games[tbl[i].game_id])
                                      /\ IsNone(tbl[i].covered) },
                 1, Len(tbl))

\* INSERT INTO line_snapshots, then INSERT INTO odds_snapshots with source
\* 'live'; t holds the two tables
save_line_snapshot(t, game_id, bookmaker, spread_team, spread_value, spread_price, home_score, away_score, mins_remaining, is_opening) ==
    [ legacy  |-> Append(t.legacy,
                    [ game_id |-> game_id, bookmaker |-> bookmaker,
                      spread_team |-> spread_team,
                      spread_value |-> spread_value,
                      spread_price |-> spread_price,
                      home_score |-> home_score, away_score |-> away_score,
                      mins_remaining |-> mins_remaining,
                      is_opening |-> IF is_opening THEN 1 ELSE 0 ]),
      unified |-> Append(t.unified,
                    [ game_id |-> game_id, source |-> "live",
                      snapshot_type |-> IF is_opening THEN "opening" ELSE "live",
                      bookmaker |-> bookmaker, spread_home |-> spread_value,
                      home_score |-> home_score, away_score |-> away_score,
                      mins_remaining |-> mins_remaining ]) ]

\* the rows of table tbl that are opening snapshots of game_id
OpeningRows(tbl, game_id) ==
    { i \in DOMAIN tbl : tbl[i].game_id = game_id /\ tbl[i].is_opening = 1 }

\* SELECT ... WHERE game_id = ? AND is_opening = 1 ORDER BY timestamp ASC
\* LIMIT 1: the earliest such row, or None
get_opening_snapshot(tbl, game_id) ==
    LET rows == OpeningRows(tbl, game_id) IN
    IF rows = {} THEN None
    ELSE Some(tbl[CHOOSE i \in rows : \A j \in rows : i <= j])

---------------------------------------------------------------------------
(* src/live_odds_monitor/core/tracker.py: HistoricalTracker *)

\* record_opening_line with the look-up of an existing opening line left out
record_opening_line_unguarded(t, game_id, spread_team, spread_value) ==
    save_line_snapshot(t, game_id, "fanduel", spread_team, spread_value,
                       -110, 0, 0, None, TRUE)

\* record_opening_line: nothing when the game has an opening snapshot
record_opening_line(t, game_id, spread_team, spread_value) ==
    LET existing == get_opening_snapshot(t.legacy, game_id) IN
    IF ~IsNone(existing) THEN t
    ELSE save_line_snapshot(t, game_id, "fanduel", spread_team, spread_value,
                            -110, 0, 0, None, TRUE)

record_live_line(t, game_id, spread_team, spread_value, home_score, away_score, mins_remaining) ==
    save_line_snapshot(t, game_id, "fanduel", spread_team, spread_value,
                       -110, home_score, away_score, mins_remaining, FALSE)

\* record_alert: one alert row, then one bet row in each bet table that
\* carries the alert's id; the bet's id is its row in bet_outcomes
record_alert(db, game_id, spread_team, current_spread, opening_spread, pct_change, mins_remaining) ==
    LET alerts2  == save_alert_with_id(db.alerts, game_id, "spread_change")
        alert_id == Some(Len(alerts2))
    IN  [ alerts  |-> alerts2,
          legacy  |-> Append(db.legacy,
                        LegacyBetRow(game_id, "spread", spread_team,
                            current_spread, opening_spread, pct_change,
                            mins_remaining, alert_id)),
          unified |-> Append(db.unified,
                        UnifiedBetRow(game_id, "spread", spread_team,
                            current_spread, opening_spread, pct_change,
                            mins_remaining, alert_id)),
          writes  |-> Append(db.writes, 0) ]

\* for s in score["scores"]: the entry named as the home team sets
\* home_score, any other entry sets away_score
RECURSIVE ParseScores(_, _, _)
ParseScores(entries, home_team, acc) ==
    IF entries = <<>> THEN acc
    ELSE LET e == Head(entries) IN
         ParseScores(Tail(entries), home_team,
             IF e.name = home_team
             THEN [acc EXCEPT !.home_score = Some(int(Digits(e.score)))]
             ELSE [acc EXCEPT !.away_score = Some(int(Digits(e.score)))])

\* game_results after fetch_and_record_game_results has gone through the
\* games needing results with the response `scores` of the scores API
fetch_and_record_game_results(scores) ==
    LET pending_games == get_games_needing_results
        Parsed(g) == ParseScores(Val(scores[g]).scores, Val(games[g]).home_team,
                                 [home_score |-> None, away_score |-> None])
        Found(g) == /\ g \in pending_games
                    /\ ~IsNone(scores[g])
                    /\ Val(scores[g]).completed
                    /\ ~IsNone(Parsed(g).home_score)
                    /\ ~IsNone(Parsed(g).away_score)
    IN  [ g \in GameIds |->
            IF Found(g)
            THEN save_game_result(game_results, g, Val(Parsed(g).home_score),
                                  Val(Parsed(g).away_score))[g]
            ELSE game_results[g] ]

\* the side test of resolve_pending_bets
IsHomeBet(bet_team, home_team) ==
    \/ bet_team = home_team
    \/ StartsWith(Chars(home_team), FirstWord(Chars(bet_team)))

\* ResolveOutcome with the away side given the magnitude of the spread
ResolveOutcomeAbs(bet, result) ==
    LET margin == result.final_score_home - result.final_score_away
        adjusted_margin ==
            IF IsHomeBet(bet.bet_team, bet.home_team)
            THEN Pts(margin) + bet.bet_spread
            ELSE -Pts(margin) + Abs(bet.bet_spread)
        covered == adjusted_margin > 0
    IN  [ final_margin |-> margin,
          covered |-> covered,
          profit |-> IF covered THEN 100 ELSE -110 ]

\* ResolveOutcome with an adjusted margin of exactly 0 counted as a cover
ResolveOutcomePushWins(bet, result) ==
    LET margin == result.final_score_home - result.final_score_away
        adjusted_margin ==
            IF IsHomeBet(bet.bet_team, bet.home_team)
            THEN Pts(margin) + bet.bet_spread
            ELSE -Pts(margin) + bet.bet_spread
        covered == adjusted_margin >= 0
    IN  [ final_margin |-> margin,
          covered |-> covered,
          profit |-> IF covered THEN 100 ELSE -110 ]

\* the sum of the profits already stored in bet_outcomes
RECURSIVE StoredProfit(_)
StoredProfit(i) ==
    IF i = 0 THEN 0
    ELSE StoredProfit(i - 1)
         + (IF IsNone(bet_outcomes[i].profit) THEN 0
            ELSE Val(bet_outcomes[i].profit))

\* ResolveOutcome with the profit kept as a running total over the bets
\* resolved so far
ResolveOutcomeRunningTotal(bet, result) ==
    LET margin == result.final_score_home - result.final_score_away
        adjusted_margin ==
            IF IsHomeBet(bet.bet_team, bet.home_team)
            THEN Pts(margin) + bet.bet_spread
            ELSE -Pts(margin) + bet.bet_spread
        covered == adjusted_margin > 0
    IN  [ final_margin |-> margin,
          covered |-> covered,
          profit |-> StoredProfit(Len(bet_outcomes))
                       + (IF covered THEN 100 ELSE -110) ]

\* the body of the loop of resolve_pending_bets for one pending bet (a row
\* of get_pending_bets) whose game has the result `result`
ResolveOutcome(bet, result) ==
    LET margin == result.final_score_home - result.final_score_away
        adjusted_margin ==
            IF IsHomeBet(bet.bet_team, bet.home_team)
            THEN Pts(margin) + bet.bet_spread
            ELSE -Pts(margin) + bet.bet_spread
        covered == adjusted_margin > 0
    IN  [ final_margin |-> margin,
          covered |-> covered,
          profit |-> IF covered THEN 100 ELSE -110 ]

\* the loop of resolve_pending_bets over the rows fetched at its start
RECURSIVE ResolveEach(_, _)
ResolveEach(pending, t) ==
    IF pending = <<>> THEN t
    ELSE LET bet == JoinedBet(bet_outcomes, Head(pending))
             result == get_game_result(bet.game_id)
         IN  IF IsNone(result)
             THEN ResolveEach(Tail(pending), t)
             ELSE LET o == ResolveOutcome(bet, Val(result)) IN
                  ResolveEach(Tail(pending),
                      update_bet_outcome(t, bet.id, o.final_margin,
                                         o.covered, o.profit))

resolve_pending_bets ==
    ResolveEach(get_pending_bets(bet_outcomes),
                BetTables(bet_outcomes, bets, outcome_writes))

\* `return len(pending)`: every pending bet counted, resolved or not
RECURSIVE ResolvedCountAllPending(_)
ResolvedCountAllPending(pending) ==
    IF pending = <<>> THEN 0 ELSE 1 + ResolvedCountAllPending(Tail(pending))

\* `resolved += 1` after each update_bet_outcome of the loop: the pending
\* bets whose game has a result
RECURSIVE ResolvedCount(_)
ResolvedCount(pending) ==
    IF pending = <<>> THEN 0
    ELSE (IF IsNone(get_game_result(JoinedBet(bet_outcomes, Head(pending)).game_id))
          THEN 0 ELSE 1)
         + ResolvedCount(Tail(pending))

\* `return resolved`
resolve_pending_bets_returned == ResolvedCount(get_pending_bets(bet_outcomes))

---------------------------------------------------------------------------
(* The tracker driven through its methods: the specification Spec *)

\* most bets recorded in a run
MaxBets == 2

\* current spreads a bet is recorded at: -1.0 and +1.0, from an opening
\* line of 0.5, a change of 100%
BetSpreads == {-Pts(1), Pts(1)}

\* final scores the scores API reports, as it sends them: digit strings
ScoreTexts == {"0", "1"}

\* what the scores API can say of a game: nothing, a game in progress, or
\* a completed game with the two teams' scores in either order
ScoreShapes ==
    {None}
    \cup {Some([completed |-> FALSE, home_first |-> TRUE, h |-> "0", w |-> "0"])}
    \cup {Some([completed |-> TRUE, home_first |-> o, h |-> h, w |-> w]) :
             o \in BOOLEAN, h \in ScoreTexts, w \in ScoreTexts}

\* the score record of the API for game g in the shape sh
ScoreRecord(g, sh) ==
    LET a == ApiGame(g)
        home == [name |-> a.home_team, score |-> sh.h]
        away == [name |-> a.away_team, score |-> sh.w]
    IN  [ completed |-> sh.completed,
          scores |-> IF sh.home_first THEN <<home, away>> ELSE <<away, home>> ]

SportGames(sport) == { g \in GameIds : ApiGame(g).sport = sport }

\* client.get_scores(sport, days_from): a record for some games of that
\* sport and for no other game
ScoreResponse(sport, shapes) ==
    [ g \in GameIds |->
        IF g \in DOMAIN shapes /\ ~IsNone(shapes[g])
        THEN Some(ScoreRecord(g, Val(shapes[g])))
        ELSE None ]

SaveGame(g, sport) ==
    /\ games' = save_game(games,
                    Game(g, ApiGame(g).home_team, ApiGame(g).away_team,
                         ApiGame(g).commence_time, sport))
    /\ UNCHANGED <<pureVars, liveVars, snapVars, clock, game_results, alerts, bet_outcomes, bets,
                   outcome_writes>>

RecordAlert(g, spread_team, current_spread) ==
    /\ Len(bet_outcomes) < MaxBets
    /\ LET db == record_alert([alerts |-> alerts, legacy |-> bet_outcomes,
                               unified |-> bets, writes |-> outcome_writes],
                              g, spread_team, current_spread, 1, Rat(1, 1),
                              Some(Mins(20)))
       IN  /\ alerts' = db.alerts
           /\ bet_outcomes' = db.legacy
           /\ bets' = db.unified
           /\ outcome_writes' = db.writes
    /\ UNCHANGED <<pureVars, liveVars, snapVars, clock, games, game_results>>

\* with no game needing a result the method returns before it asks the API
FetchAndRecordGameResults(sport) ==
    /\ IF get_games_needing_results = {}
       THEN UNCHANGED game_results
       ELSE \E shapes \in [SportGames(sport) -> ScoreShapes] :
              game_results' =
                  fetch_and_record_game_results(ScoreResponse(sport, shapes))
    /\ UNCHANGED <<pureVars, liveVars, snapVars, clock, games, alerts, bet_outcomes, bets,
                   outcome_writes>>

\* a call of resolve_pending_bets by a caller that keeps what it returns
ResolvePendingBets ==
    /\ LET t == resolve_pending_bets IN
          /\ bet_outcomes' = t.legacy
          /\ bets' = t.unified
          /\ outcome_writes' = t.writes
    /\ ret' = Some(resolve_pending_bets_returned)
    /\ UNCHANGED <<call, liveVars, snapVars, clock, games, game_results, alerts>>

PureIdle == call = None /\ ret = None

\* the module-level state of watch_live.py when main starts, and the empty
\* opening_line_cache table
LiveInit ==
    /\ pc = "poll"
    /\ live_games = <<>>
    /\ espn_game_cache = [i \in DOMAIN SPORTS |-> None]
    /\ opening_lines = [g \in GameIds |-> None]
    /\ opening_line_cache = [g \in GameIds |-> None]
    /\ stopped_games = {}
    /\ alerted_games = {}
    /\ empty_poll_count = 0
    /\ credit_stats = [api_calls |-> 0, cache_hits |-> 0, skipped_spreads |-> 0]
    /\ busy_polls = 0
    /\ polls = 0
    /\ alert_polls = [g \in GameIds |-> 0]
    /\ scores_final = {}
    /\ obtained = [g \in GameIds |-> None]
    /\ simulated_bets = <<>>
    /\ monitor_games = [g \in GameIds |-> None]
    /\ send_outcome = [g \in GameIds |-> "none"]
    /\ historical_odds_cache =
          [g \in GameIds |-> [s \in {"opening", "pregame", "midgame"} |-> None]]
    /\ lines_store = [ files   |-> [k \in {<<"basketball_ncaab", "2025-2026">>} |-> None],
                       cache   |-> [k \in {<<"basketball_ncaab", "2025-2026">>} |-> None],
                       index   |-> [g \in GameIds |-> None],
                       pending |-> <<>> ]
    /\ first_save = [g \in GameIds |-> None]

SnapInit ==
    /\ line_snapshots = <<>>
    /\ odds_snapshots = <<>>
    /\ first_opening = [g \in GameIds |-> None]

DbInit ==
    /\ clock = 0
    /\ games = [g \in GameIds |-> None]
    /\ game_results = [g \in GameIds |-> None]
    /\ alerts = <<>>
    /\ bet_outcomes = <<>>
    /\ bets = <<>>
    /\ outcome_writes = <<>>

Init == PureIdle /\ DbInit /\ SnapInit /\ LiveInit

Next ==
    \/ Tick
    \/ \E g \in GameIds : SaveGame(g, None)
    \/ \E g \in GameIds :
          \E team \in {ApiGame(g).home_team, ApiGame(g).away_team} :
            \E spread \in BetSpreads : RecordAlert(g, team, spread)
    \/ \E i \in DOMAIN SPORTS : FetchAndRecordGameResults(SPORTS[i])
    \/ ResolvePendingBets

Spec == Init /\ [][Next]_vars

---------------------------------------------------------------------------
(* Claims about the bet life cycle, checked under Spec *)

BetIds == DOMAIN bet_outcomes
Resolved(i) == ~IsNone(bet_outcomes[i].covered)
BetGame(i) == Val(games[bet_outcomes[i].game_id])
BetResult(i) == Val(game_results[bet_outcomes[i].game_id])
BetMargin(i) == BetResult(i).final_score_home - BetResult(i).final_score_away
OnHomeSide(i) == IsHomeBet(bet_outcomes[i].bet_team, BetGame(i).home_team)

\* C1: a bet goes from pending to resolved at most once, and the outcome of
\* a resolved bet is never written again: update_bet_outcome has run once
\* for every resolved bet and never for a pending one.
C1_ResolvedAtMostOnce ==
    \A i \in BetIds :
        /\ outcome_writes[i] <= 1
        /\ Resolved(i) <=> outcome_writes[i] = 1
        /\ Resolved(i) <=> ~IsNone(bet_outcomes[i].final_margin)
        /\ Resolved(i) <=> ~IsNone(bet_outcomes[i].profit)

\* a resolved bet and a later, still pending bet on the same game: the next
\* run of resolve_pending_bets meets a bet that is already resolved
C1_Witness ==
    \E i, j \in BetIds :
        /\ i < j
        /\ bet_outcomes[i].game_id = bet_outcomes[j].game_id
        /\ Resolved(i) /\ outcome_writes[i] = 1
        /\ ~Resolved(j)

C5_ProfitAndPush ==
    \A i \in BetIds : Resolved(i) =>
        LET b == bet_outcomes[i]
            adjusted == IF OnHomeSide(i) THEN Pts(BetMargin(i)) + b.bet_spread
                        ELSE -Pts(BetMargin(i)) + b.bet_spread
        IN  /\ Val(b.covered) = 1 => Val(b.profit) = 100
            /\ Val(b.covered) # 1 => Val(b.profit) = -110
            /\ adjusted = 0 => Val(b.covered) = 0 /\ Val(b.profit) = -110

\* a home bet at -1.0 in a game the home team won by exactly 1
C5_Witness ==
    \E i \in BetIds :
        /\ Resolved(i) /\ OnHomeSide(i)
        /\ bet_outcomes[i].bet_spread = -Pts(1)
        /\ BetMargin(i) = 1
        /\ Val(bet_outcomes[i].covered) = 0
        /\ Val(bet_outcomes[i].profit) = -110

\* the inputs the claim lets the outcome depend on
ResolverInputs(i) ==
    <<bet_outcomes[i].bet_team, bet_outcomes[i].bet_spread,
      BetGame(i).home_team, BetResult(i).final_score_home,
      BetResult(i).final_score_away>>

---------------------------------------------------------------------------
(* The line snapshots driven through the tracker: the specification
   SpecOpening *)

\* most rows of line_snapshots in a run
MaxSnapshots == 3

\* spread values a line is recorded at, a pick'em line (0.0) among them
LineSpreads == {0, Pts(1)}

SnapTables == [legacy |-> line_snapshots, unified |-> odds_snapshots]

\* first_opening after a call record_opening_line(g, spread_team, spread_value)
NoteOpeningCall(g, spread_team, spread_value) ==
    IF IsNone(first_opening[g])
    THEN [first_opening EXCEPT ![g] =
             Some([ spread_team |-> spread_team,
                    spread_value |-> spread_value, again |-> FALSE ])]
    ELSE [first_opening EXCEPT ![g] =
             Some([Val(first_opening[g]) EXCEPT !.again = TRUE])]

RecordOpeningLine(g, spread_team, spread_value) ==
    /\ Len(line_snapshots) < MaxSnapshots
    /\ LET t == record_opening_line(SnapTables, g, spread_team, spread_value)
       IN  /\ line_snapshots' = t.legacy
           /\ odds_snapshots' = t.unified
    /\ first_opening' = NoteOpeningCall(g, spread_team, spread_value)
    /\ UNCHANGED <<pureVars, liveVars, clock, dbVars>>

RecordLiveLine(g, spread_team, spread_value) ==
    /\ Len(line_snapshots) < MaxSnapshots
    /\ LET t == record_live_line(SnapTables, g, spread_team, spread_value,
                                 1, 0, Some(Mins(20)))
       IN  /\ line_snapshots' = t.legacy
           /\ odds_snapshots' = t.unified
    /\ UNCHANGED <<pureVars, liveVars, clock, dbVars, first_opening>>

InitOpening == PureIdle /\ DbInit /\ SnapInit /\ LiveInit

NextOpening ==
    \E g \in GameIds :
      \E team \in {ApiGame(g).home_team, ApiGame(g).away_team} :
        \E value \in LineSpreads :
          \/ RecordOpeningLine(g, team, value)
          \/ RecordLiveLine(g, team, value)

SpecOpening == InitOpening /\ [][NextOpening]_vars

\* C2: after any sequence of record_opening_line calls for a game_id, with
\* any spread team and value, exactly one opening snapshot exists for that
\* game and it holds the values of the first call; a game never given to
\* record_opening_line has none.
C2_OneOpeningFirstWins ==
    \A g \in GameIds :
        LET rows == OpeningRows(line_snapshots, g) IN
        IF IsNone(first_opening[g]) THEN rows = {}
        ELSE /\ Cardinality(rows) = 1
             /\ \A i \in rows :
                   /\ line_snapshots[i].spread_team
                        = Val(first_opening[g]).spread_team
                   /\ line_snapshots[i].spread_value
                        = Val(first_opening[g]).spread_value
             /\ Cardinality({ i \in DOMAIN odds_snapshots :
                     /\ odds_snapshots[i].game_id = g
                     /\ odds_snapshots[i].snapshot_type = "opening" }) = 1

\* a first call at the pick'em line 0.0, a later call for the same game,
\* and a live line recorded after the opening snapshot
C2_Witness ==
    \E g \in GameIds :
        /\ ~IsNone(first_opening[g])
        /\ Val(first_opening[g]).spread_value = 0
        /\ Val(first_opening[g]).again
        /\ \E i \in OpeningRows(line_snapshots, g) : i < Len(line_snapshots)

---------------------------------------------------------------------------
(* scripts/watch_live.py main: the fade direction of an alert *)

\* a spread quoted for `team`, from the home team's perspective
HomePerspective(team, spread, home) == IF team = home THEN spread ELSE -spread

FadeDecision(home, away, open_team, open_spread, spread_team, current_spread) ==
    LET open_home    == HomePerspective(open_team, open_spread, home)
        current_home == HomePerspective(spread_team, current_spread, home)
        home_spread_change == current_home - open_home
    IN  IF home_spread_change < 0
        THEN [ fade_team   |-> away,
               fade_spread |-> IF current_home < 0 THEN -current_home
                               ELSE current_home,
               open_home |-> open_home, current_home |-> current_home ]
        ELSE [ fade_team   |-> home,
               fade_spread |-> current_home,
               open_home |-> open_home, current_home |-> current_home ]

---------------------------------------------------------------------------
(* Application of a pure function to inputs drawn from bounded sets *)

\* pct_change inputs, in quarters: -1.0 .. 3.0, both sides of every step
PctQuarters == {-4, 0, 2, 3, 4, 5, 6, 7, 8, 9, 10, 12}
\* mins_remaining inputs in half minutes: every band edge and the value
\* half a minute to its open side (-0.5, 0, 9.5, 10, 11.5, 12, 14.5, 15,
\* 25, 25.5, 30, 30.5, 36, 36.5, 40)
MinsInputs == {None} \cup {Some(m) : m \in {-1, 0, 19, 20, 23, 24, 29, 30, 50,
                                             51, 60, 61, 72, 73, 80}}
\* opening_spread inputs in half points, of both signs: every bucket edge
\* and the value half a point above it
SpreadInputs == {x * m : x \in {-1, 1},
                         m \in {0, 3, 4, 5, 6, 7, 10, 11, 14, 15, 20, 21}}
\* score_diff inputs (home - away)
DiffInputs == {-16, -15, -6, -5, 0, 5, 6, 10, 11, 15, 16}
SportInputs == {"basketball_nba", "basketball_ncaab", "icehockey_nhl"}

ScoreCalls ==
    [ fn : {"calculate_opportunity_score"},
      pct_change : {Rat(q, 4) : q \in PctQuarters},
      mins_remaining : MinsInputs,
      opening_spread : SpreadInputs,
      score_diff : DiffInputs,
      sport : SportInputs ]

Returned == ~IsNone(ret)

ApplyScore ==
    /\ call.fn = "calculate_opportunity_score"
    /\ IsNone(ret)
    /\ ret' = Some(calculate_opportunity_score(call.pct_change,
                       call.mins_remaining, call.opening_spread,
                       call.score_diff, call.sport))
    /\ UNCHANGED <<call, liveVars, clock, dbVars, snapVars>>

\* largest spread magnitude, in half points, given to the fade decision
MaxFadeSpread == 7

FadeCalls ==
    [ fn : {"fade_direction"},
      home : {DUKE}, away : {IOWA},
      open_team : {DUKE, IOWA},
      open_spread : -MaxFadeSpread .. MaxFadeSpread,
      spread_team : {DUKE, IOWA},
      current_spread : -MaxFadeSpread .. MaxFadeSpread ]

ApplyFade ==
    /\ call.fn = "fade_direction"
    /\ IsNone(ret)
    /\ ret' = Some(FadeDecision(call.home, call.away, call.open_team,
                       call.open_spread, call.spread_team, call.current_spread))
    /\ UNCHANGED <<call, liveVars, clock, dbVars, snapVars>>

InitFade == call \in FadeCalls /\ ret = None /\ DbInit /\ SnapInit /\ LiveInit

NextFade == ApplyFade

SpecFade == InitFade /\ [][NextFade]_vars

InitScore == call \in ScoreCalls /\ ret = None /\ DbInit /\ SnapInit /\ LiveInit

NextScore == ApplyScore

SpecScore == InitScore /\ [][NextScore]_vars

---------------------------------------------------------------------------
(* Claims about the opportunity scorer, checked under SpecScore *)

Scored == Returned /\ call.fn = "calculate_opportunity_score"

\* C8: for every input the total equals the sum of the five breakdown
\* components and lies in [0,100].
C8_TotalIsSumInRange ==
    Scored =>
        LET r == Val(ret) b == r.breakdown IN
        /\ r.total_score = b.line_move + b.time_remaining + b.opening_spread
                              + b.score_diff + b.sport
        /\ 0 <= r.total_score
        /\ r.total_score <= 100

\* the maximum is attained: every component at its top value
C8_Witness ==
    /\ Scored
    /\ Val(ret).total_score = 100
    /\ Val(ret).breakdown.score_diff = 10

\* C9: the grade is decided by the total alone: >= 80 A, 70..79 B,
\* 60..69 C, below 60 D.
C9_GradeBands ==
    Scored =>
        LET t == Val(ret).total_score g == Val(ret).grade IN
        /\ (g = "A") <=> (t >= 80)
        /\ (g = "B") <=> (70 <= t /\ t < 80)
        /\ (g = "C") <=> (60 <= t /\ t < 70)
        /\ (g = "D") <=> (t < 60)
        /\ (t = 80 => g = "A") /\ (t = 79 => g = "B") /\ (t = 70 => g = "B")
        /\ (t = 69 => g = "C") /\ (t = 60 => g = "C") /\ (t = 59 => g = "D")

\* a total exactly on the A boundary
C9_Witness == Scored /\ Val(ret).total_score = 80 /\ Val(ret).grade = "A"

\* C10: the line-movement component is the step function of pct_change:
\* >= 2.5 gives 35, >= 2.0 gives 30, >= 1.5 gives 25, >= 1.0 gives 20,
\* >= 0.75 gives 15, anything below (negative changes included) gives 0.
C10_LineMoveSteps ==
    Scored =>
        LET n == call.pct_change.num
            d == call.pct_change.den
            s == Val(ret).breakdown.line_move
        IN  /\ (2 * n >= 5 * d) => s = 35
            /\ (n >= 2 * d /\ 2 * n < 5 * d) => s = 30
            /\ (2 * n >= 3 * d /\ n < 2 * d) => s = 25
            /\ (n >= d /\ 2 * n < 3 * d) => s = 20
            /\ (4 * n >= 3 * d /\ n < d) => s = 15
            /\ (4 * n < 3 * d) => s = 0

\* a change of exactly 0.75 scores 15
C10_Witness ==
    /\ Scored
    /\ 4 * call.pct_change.num = 3 * call.pct_change.den
    /\ Val(ret).breakdown.line_move = 15

\* C12: the opening-spread component depends only on |opening_spread|:
\* <= 2 gives 15, <= 3 gives 12, <= 5 gives 8, <= 7 gives 5, <= 10 gives 3,
\* above 10 gives 0; it is the same for a spread and its negation and never
\* larger for a spread of larger magnitude.
C12_SpreadBuckets ==
    Scored =>
        LET x == call.opening_spread
            a == Abs(x)
            s == Val(ret).breakdown.opening_spread
        IN  /\ a <= Pts(2) => s = 15
            /\ (Pts(2) < a /\ a <= Pts(3)) => s = 12
            /\ (Pts(3) < a /\ a <= Pts(5)) => s = 8
            /\ (Pts(5) < a /\ a <= Pts(7)) => s = 5
            /\ (Pts(7) < a /\ a <= Pts(10)) => s = 3
            /\ a > Pts(10) => s = 0
            /\ SpreadScore(-x) = s
            /\ \A y \in SpreadInputs : Abs(y) >= a => SpreadScore(y) <= s

\* an opening spread of -3.0 scores as +3.0 does
C12_Witness ==
    /\ Scored
    /\ call.opening_spread = -Pts(3)
    /\ Val(ret).breakdown.opening_spread = 12

\* C11: the time-remaining component is 0 when mins_remaining is null; for
\* NBA it is 30 on [15,30], 20 on [12,15) and (30,36], 5 below 12 and 10
\* above 36; for NCAAB 30 on [12,25], 20 on [10,12) and (25,30], 5 below 10
\* and 10 above 30; for every sport and value it is one of 0, 5, 10, 20, 30.
C11_TimeBands ==
    Scored =>
        LET t == Val(ret).breakdown.time_remaining
            mr == call.mins_remaining
            m == Val(mr)
            In(lo, x, hi) == Mins(lo) <= x /\ x <= Mins(hi)
        IN  /\ t \in {0, 5, 10, 20, 30}
            /\ IsNone(mr) => t = 0
            /\ (~IsNone(mr) /\ call.sport = "basketball_nba") =>
                 /\ In(15, m, 30) => t = 30
                 /\ ((In(12, m, 15) /\ m # Mins(15))
                       \/ (In(30, m, 36) /\ m # Mins(30))) => t = 20
                 /\ m < Mins(12) => t = 5
                 /\ m > Mins(36) => t = 10
            /\ (~IsNone(mr) /\ call.sport = "basketball_ncaab") =>
                 /\ In(12, m, 25) => t = 30
                 /\ ((In(10, m, 12) /\ m # Mins(12))
                       \/ (In(25, m, 30) /\ m # Mins(25))) => t = 20
                 /\ m < Mins(10) => t = 5
                 /\ m > Mins(30) => t = 10

\* an NBA game with exactly 15 minutes left is in the optimal range
C11_Witness ==
    /\ Scored
    /\ call.sport = "basketball_nba"
    /\ call.mins_remaining = Some(Mins(15))
    /\ Val(ret).breakdown.time_remaining = 30

---------------------------------------------------------------------------
(* Claims about the fade direction, checked under SpecFade *)

Faded == Returned /\ call.fn = "fade_direction"

---------------------------------------------------------------------------
(* scripts/watch_live.py: the poll loop of main, the specification SpecLive *)

MIN_TIME_REMAINING == 10
MAX_EMPTY_POLLS == 3
MAX_RUNTIME_HOURS == 6
MAX_OPENING_SPREAD == Pts(10)
MIN_OPENING_SPREAD == Pts(0)
MIN_ALERT_SCORE == 70

\* start_time: main starts at hour 0
start_time == 0

\* most polls of a run that find a live game
MaxBusyPolls == 2
\* most polls of a run
MaxPolls == 3

RECURSIVE Reverse(_)
Reverse(s) == IF s = <<>> THEN <<>> ELSE Reverse(Tail(s)) \o <<Head(s)>>

\* str.split()[-1]: the last whitespace-separated word
LastWord(s) == Reverse(FirstWord(Reverse(s)))

\* a in b, for strings given as their characters
IsSubstring(a, b) ==
    \E i \in 1 .. (Len(b) - Len(a) + 1) : SubSeq(b, i, i + Len(a) - 1) = a

\* estimate_minutes_remaining: commence_time is None (a string that does
\* not parse, estimate None) or Some(hour); scores are integers.  The
\* elapsed time is a whole number of hours, so every product below is a
\* whole number of minutes; the estimate is returned in half minutes.
estimate_minutes_remaining(commence_time, home_score, away_score) ==
    IF IsNone(commence_time) THEN None
    ELSE LET elapsed == (clock - Val(commence_time)) * 60
             total_score == home_score + away_score
             estimated_remaining ==
                 IF total_score < 20
                 THEN Max2(35, 40 - (8 * elapsed) \div 10)
                 ELSE IF total_score < 60
                 THEN Max2(20, 35 - (7 * elapsed) \div 10)
                 ELSE IF total_score < 100
                 THEN Max2(10, 25 - (6 * elapsed) \div 10)
                 ELSE Max2(5, 15 - (5 * elapsed) \div 10)
         IN  Some(Mins(Min2(Max2(estimated_remaining, 5), 40)))

\* the first entry of clocks, from position i, whose team name contains
\* team_short or is contained in team
RECURSIVE PartialMatch(_, _, _, _)
PartialMatch(clocks, i, team_short, team) ==
    IF i > Len(clocks) THEN None
    ELSE IF \/ IsSubstring(team_short, Chars(clocks[i].team))
            \/ IsSubstring(Chars(clocks[i].team), Chars(team))
         THEN Some(clocks[i].mins)
         ELSE PartialMatch(clocks, i + 1, team_short, team)

\* one round of the loop `for team in [home_team, away_team]`
TeamClock(clocks, team) ==
    LET exact == { i \in DOMAIN clocks : clocks[i].team = team } IN
    IF exact # {} THEN Some(clocks[CHOOSE i \in exact : TRUE].mins)
    ELSE PartialMatch(clocks, 1, LastWord(Chars(team)), team)

\* cache[i] is None when SPORTS[i] is not a key of espn_game_cache, else
\* Some(the clocks of that sport, in the order ESPN listed them)
get_accurate_time_remaining(cache, home_team, away_team, sport, fallback_estimate) ==
    LET keys == { i \in DOMAIN SPORTS : SPORTS[i] = sport /\ ~IsNone(cache[i]) } IN
    IF keys = {} THEN fallback_estimate
    ELSE LET clocks == Val(cache[CHOOSE i \in keys : TRUE])
             of_home == TeamClock(clocks, home_team)
             of_away == TeamClock(clocks, away_team)
         IN  IF ~IsNone(of_home) THEN of_home
             ELSE IF ~IsNone(of_away) THEN of_away
             ELSE fallback_estimate

\* get_spread over the outcomes of the fanduel spreads market (<<>> when
\* the game has no such market): the first outcome, or with a team_filter
\* the first outcome whose name contains it
RECURSIVE get_spread(_, _)
get_spread(outcomes, team_filter) ==
    IF outcomes = <<>> THEN [point |-> None, name |-> None]
    ELSE IF \/ IsNone(team_filter)
            \/ IsSubstring(Val(team_filter), Chars(Head(outcomes).name))
         THEN [point |-> Head(outcomes).point, name |-> Some(Head(outcomes).name)]
         ELSE get_spread(Tail(outcomes), team_filter)

\* storage.get_opening_line_cache / save_opening_line_cache (INSERT OR
\* REPLACE INTO opening_line_cache)
get_opening_line_cache(tbl, game_id) == tbl[game_id]

save_opening_line_cache(tbl, game_id, sport, spread_value, spread_team, home_team) ==
    [tbl EXCEPT ![game_id] =
        Some([ sport |-> sport, spread_value |-> spread_value,
               spread_team |-> spread_team, home_team |-> home_team ])]

\* the three stores fetch_opening_line reads and writes, as one value
OpeningStores(memory, cache, stats) ==
    [opening_lines |-> memory, opening_line_cache |-> cache, credit_stats |-> stats]

\* fetch_opening_line reaches the historical API: neither cache knows the
\* game and the current spread is absent or within MAX_OPENING_SPREAD
AsksHistoricalApi(st, game_id, current_spread) ==
    /\ IsNone(st.opening_lines[game_id])
    /\ IsNone(get_opening_line_cache(st.opening_line_cache, game_id))
    /\ ~(~IsNone(current_spread) /\ Abs(Val(current_spread)) > MAX_OPENING_SPREAD)

\* fetch_opening_line without the look-up in the database cache
fetch_opening_line_memory_only(st, game_id, sport, current_spread, historical) ==
    IF ~IsNone(st.opening_lines[game_id])
    THEN [ result |-> st.opening_lines[game_id],
           stores |-> [st EXCEPT !.credit_stats.cache_hits = @ + 1] ]
    ELSE IF ~IsNone(current_spread) /\ Abs(Val(current_spread)) > MAX_OPENING_SPREAD
    THEN [ result |-> None,
           stores |-> [st EXCEPT !.credit_stats.skipped_spreads = @ + 1] ]
    ELSE LET called == [st EXCEPT !.credit_stats.api_calls = @ + 1]
             first == IF IsNone(historical)
                      THEN [point |-> None, name |-> None]
                      ELSE get_spread(Val(historical).outcomes, None)
         IN  IF IsNone(first.point)
             THEN [result |-> None, stores |-> called]
             ELSE LET line == [ spread |-> Val(first.point),
                                team |-> Val(first.name),
                                home |-> Val(historical).home_team ]
                  IN  [ result |-> Some(line),
                        stores |->
                          [called EXCEPT
                             !.opening_lines[game_id] = Some(line),
                             !.opening_line_cache =
                                 save_opening_line_cache(@, game_id, sport,
                                     line.spread, line.team, line.home)] ]

\* fetch_opening_line: `historical` is what get_historical_event_odds
\* answers if asked, None (no data, or an exception) or Some(data); the
\* result is None or Some of the line (spread, team, home)
fetch_opening_line(st, game_id, sport, current_spread, historical) ==
    LET cached == get_opening_line_cache(st.opening_line_cache, game_id) IN
    IF ~IsNone(st.opening_lines[game_id])
    THEN [ result |-> st.opening_lines[game_id],
           stores |-> [st EXCEPT !.credit_stats.cache_hits = @ + 1] ]
    ELSE IF ~IsNone(cached)
    THEN LET result == [ spread |-> Val(cached).spread_value,
                         team |-> Val(cached).spread_team,
                         home |-> Val(cached).home_team ]
         IN  [ result |-> Some(result),
               stores |-> [st EXCEPT !.opening_lines[game_id] = Some(result),
                                     !.credit_stats.cache_hits = @ + 1] ]
    ELSE IF ~IsNone(current_spread) /\ Abs(Val(current_spread)) > MAX_OPENING_SPREAD
    THEN [ result |-> None,
           stores |-> [st EXCEPT !.credit_stats.skipped_spreads = @ + 1] ]
    ELSE LET called == [st EXCEPT !.credit_stats.api_calls = @ + 1]
             first == IF IsNone(historical)
                      THEN [point |-> None, name |-> None]
                      ELSE get_spread(Val(historical).outcomes, None)
         IN  IF IsNone(first.point)
             THEN [result |-> None, stores |-> called]
             ELSE LET line == [ spread |-> Val(first.point),
                                team |-> Val(first.name),
                                home |-> Val(historical).home_team ]
                  IN  [ result |-> Some(line),
                        stores |->
                          [called EXCEPT
                             !.opening_lines[game_id] = Some(line),
                             !.opening_line_cache =
                                 save_opening_line_cache(@, game_id, sport,
                                     line.spread, line.team, line.home)] ]

\* `if game_id not in alerted_games` with the set left unread
NotInAlertedGamesUnread(game_id, alerted) == TRUE

\* the guard of the alert record: `if game_id not in alerted_games`
NotInAlertedGames(game_id, alerted) == game_id \notin alerted

\* what a poll finds of game g: None when it is not live (no score record,
\* no scores or completed), else the order of the two outcomes of the
\* fanduel spreads market and the home point in half points (None: no such
\* market).  g1 is quoted at -1.0, -2.0 or -21.0 or not at all, g2 at -3.0
\* with its outcomes in either order.
LiveShapes(g) ==
    CASE g = "g1" ->
           {None} \cup { Some([home_first |-> TRUE, point |-> p]) :
                           p \in {None, Some(-Pts(1)), Some(-Pts(2)),
                                  Some(-Pts(21))} }
      [] g = "g2" ->
           {None} \cup { Some([home_first |-> o, point |-> Some(-Pts(3))]) :
                           o \in BOOLEAN }

\* the findings of one poll, one per game
PollShapes ==
    { f \in [GameIds -> UNION {LiveShapes(g) : g \in GameIds}] :
        \A g \in GameIds : f[g] \in LiveShapes(g) }

\* the game of the odds feed, tagged as the poll tags a live game
LiveGame(g, sh) ==
    LET a == ApiGame(g)
        home == [name |-> a.home_team, point |-> sh.point]
        away == [name |-> a.away_team,
                 point |-> IF IsNone(sh.point) THEN None ELSE Some(-Val(sh.point))]
    IN  [ id |-> g, home_team |-> a.home_team, away_team |-> a.away_team,
          commence_time |-> a.commence_time, sport |-> a.sport,
          scores |-> << [name |-> a.home_team, score |-> "1"],
                        [name |-> a.away_team, score |-> "0"] >>,
          score_commence_time |-> Some(a.commence_time),
          outcomes |-> IF IsNone(sh.point) THEN <<>>
                       ELSE IF sh.home_first THEN <<home, away>>
                       ELSE <<away, home>> ]

\* client.get_live_odds(sport): the ids of the games of that feed, in order
OddsFeed(sport) ==
    CASE sport = "basketball_nba" -> <<"g1">>
      [] sport = "basketball_ncaab" -> <<"g2">>

\* the body of `for game in odds_data`: acc holds all_live_games and
\* stopped_games
ScanGame(acc, g, sh) ==
    IF g \in acc.stopped THEN acc
    ELSE IF IsNone(sh) THEN acc
    ELSE LET game == LiveGame(g, Val(sh))
             mins_left == estimate_minutes_remaining(game.score_commence_time, 0, 0)
         IN  IF ~IsNone(mins_left) /\ Val(mins_left) < Mins(MIN_TIME_REMAINING)
             THEN [acc EXCEPT !.stopped = @ \cup {g}]
             ELSE [acc EXCEPT !.live = Append(@, game)]

RECURSIVE ScanFeed(_, _, _)
ScanFeed(acc, feed, shapes) ==
    IF feed = <<>> THEN acc
    ELSE ScanFeed(ScanGame(acc, Head(feed), shapes[Head(feed)]), Tail(feed), shapes)

\* `for sport in SPORTS`, from SPORTS[i] on
RECURSIVE ScanSports(_, _, _)
ScanSports(acc, i, shapes) ==
    IF i > Len(SPORTS) THEN acc
    ELSE ScanSports(ScanFeed(acc, OddsFeed(SPORTS[i]), shapes), i + 1, shapes)

\* fetch_espn_game_clock(sport): the NBA scoreboard lists both teams of
\* g1 at 20 minutes, the college scoreboard lists no game (as it also does
\* on an error)
fetch_espn_game_clock(sport) ==
    IF sport = "basketball_nba"
    THEN << [team |-> ApiGame("g1").home_team, mins |-> Mins(20)],
            [team |-> ApiGame("g1").away_team, mins |-> Mins(20)] >>
    ELSE <<>>

\* what the historical API can answer for game g: nothing, or the data of
\* the game with the opening home point -1.0 (the two outcomes in either
\* order) or 0.0 or, for g1, -10.5
HistoricalShapes(g) ==
    LET a == ApiGame(g)
        Data(p, home_first) ==
            LET home == [name |-> a.home_team, point |-> Some(p)]
                away == [name |-> a.away_team, point |-> Some(-p)]
            IN  [ home_team |-> a.home_team,
                  outcomes |-> IF home_first THEN <<home, away>>
                               ELSE <<away, home>> ]
    IN  {None, Some(Data(0, TRUE))}
        \cup {Some(Data(-Pts(1), o)) : o \in BOOLEAN}
        \cup (IF g = "g1" THEN {Some(Data(-Pts(10) - 1, TRUE))} ELSE {})

\* the scores of a live game: the entry named as the home team sets
\* home_score, any other entry away_score; both start at 0
RECURSIVE LiveScores(_, _, _)
LiveScores(entries, home, acc) ==
    IF entries = <<>> THEN acc
    ELSE LET e == Head(entries) IN
         LiveScores(Tail(entries), home,
             IF e.name = home
             THEN [acc EXCEPT !.home_score = int(Digits(e.score))]
             ELSE [acc EXCEPT !.away_score = int(Digits(e.score))])

\* abs(current_spread / open_spread) - 1, for open_spread # 0
PctChange(current_spread, open_spread) ==
    Rat(Abs(current_spread) - Abs(open_spread), Abs(open_spread))

\* the count of empty polls that a poll with live games leaves as it is
CountEmptyPollNoReset(count, live) ==
    IF Len(live) = 0 THEN count + 1 ELSE count

\* `if len(live_games) == 0: empty_poll_count += 1 ... else:
\* empty_poll_count = 0`
CountEmptyPoll(count, live) ==
    IF Len(live) = 0 THEN count + 1 ELSE 0

\* the top of the loop of main: the runtime check, the ESPN clocks, the
\* scan of the two feeds for live games and the count of empty polls, in a
\* run of at most max_polls polls
PollFrom(max_polls, poll_shapes) ==
    /\ pc = "poll"
    /\ IF clock - start_time >= MAX_RUNTIME_HOURS
       THEN /\ pc' = "stopped"
            /\ UNCHANGED <<live_games, espn_game_cache, stopped_games,
                           empty_poll_count, busy_polls, polls>>
       ELSE \E shapes \in poll_shapes :
              LET scan == ScanSports([live |-> <<>>, stopped |-> stopped_games],
                                     1, shapes)
              IN  /\ scan.live # <<>> => busy_polls < MaxBusyPolls
                  /\ polls < max_polls
                  /\ polls' = polls + 1
                  /\ espn_game_cache' =
                        [i \in DOMAIN SPORTS |-> Some(fetch_espn_game_clock(SPORTS[i]))]
                  /\ live_games' = scan.live
                  /\ stopped_games' = scan.stopped
                  /\ empty_poll_count' = CountEmptyPoll(empty_poll_count, scan.live)
                  /\ IF Len(scan.live) = 0
                     THEN /\ pc' = IF empty_poll_count' >= MAX_EMPTY_POLLS
                                   THEN "stopped" ELSE "games"
                          /\ UNCHANGED busy_polls
                     ELSE /\ pc' = "games"
                          /\ busy_polls' = busy_polls + 1
    /\ UNCHANGED <<pureVars, clock, dbVars, snapVars, opening_lines,
                   opening_line_cache, alerted_games, credit_stats, alert_polls,
                   scores_final, obtained, simulated_bets, monitor_games, send_outcome, historical_odds_cache, storeVars>>

\* the poll loop over the feeds of PollShapes
PollUpTo(max_polls) == PollFrom(max_polls, PollShapes)

Poll == PollUpTo(MaxPolls)

\* the range test that lets every opening spread through
OutsideOptimalRangeNever(open_spread) == FALSE

\* `opening_spread_abs < MIN_OPENING_SPREAD or opening_spread_abs >
\* MAX_OPENING_SPREAD`
OutsideOptimalRange(open_spread) ==
    \/ Abs(open_spread) < MIN_OPENING_SPREAD
    \/ Abs(open_spread) > MAX_OPENING_SPREAD

\* the body of `for game in live_games` for the next live game
MonitorGame ==
    /\ pc = "games"
    /\ live_games # <<>>
    /\ LET game == Head(live_games)
           game_id == game.id
           home == game.home_team
           away == game.away_team
           sport == game.sport
           game_obj == Game(game_id, home, away, game.commence_time, None)
           filtered == get_spread(game.outcomes, Some(FirstWord(Chars(home))))
           found == IF IsNone(filtered.point)
                    THEN get_spread(game.outcomes, None) ELSE filtered
           current_spread == found.point
           spread_team == found.name
           sc == LiveScores(game.scores, home, [home_score |-> 0, away_score |-> 0])
           estimated_mins == estimate_minutes_remaining(game.score_commence_time,
                                 sc.home_score, sc.away_score)
           mins_left == get_accurate_time_remaining(espn_game_cache, home, away,
                            sport, estimated_mins)
           stores == OpeningStores(opening_lines, opening_line_cache, credit_stats)
       IN  \E historical \in
                 (IF AsksHistoricalApi(stores, game_id, current_spread)
                  THEN HistoricalShapes(game_id) ELSE {None}) :
             LET fetched == fetch_opening_line(stores, game_id, sport,
                                               current_spread, historical)
                 opening == fetched.result
                 open_spread == Val(opening).spread
                 open_team == Val(opening).team
                 cur == Val(current_spread)
                 cur_team == Val(spread_team)
                 with_opening ==
                     IF ~IsNone(opening)
                     THEN record_opening_line(SnapTables, game_id, open_team, open_spread)
                     ELSE SnapTables
                 with_live == record_live_line(with_opening, game_id, cur_team, cur,
                                  sc.home_score, sc.away_score, mins_left)
                 in_range == /\ ~IsNone(opening)
                             /\ ~OutsideOptimalRange(open_spread)
                             /\ open_spread # 0
                 pct_change == PctChange(cur, open_spread)
                 opp_score == calculate_opportunity_score(pct_change, mins_left,
                                  open_spread, sc.home_score - sc.away_score, sport)
                 alert == in_range /\ opp_score.total_score >= MIN_ALERT_SCORE
                 fade == FadeDecision(home, away, open_team, open_spread, cur_team, cur)
                 db == record_alert([alerts |-> alerts, legacy |-> bet_outcomes,
                                     unified |-> bets, writes |-> outcome_writes],
                                    game_id, fade.fade_team, fade.fade_spread,
                                    fade.open_home, pct_change, mins_left)
             IN  /\ games' = save_game(games, game_obj)
                 /\ opening_lines' = fetched.stores.opening_lines
                 /\ opening_line_cache' = fetched.stores.opening_line_cache
                 /\ credit_stats' = fetched.stores.credit_stats
                 /\ live_games' = Tail(live_games)
                 /\ IF IsNone(current_spread)
                    THEN UNCHANGED <<snapVars, alerts, bet_outcomes, bets,
                                     outcome_writes, alerted_games, alert_polls>>
                    ELSE /\ line_snapshots' = with_live.legacy
                         /\ odds_snapshots' = with_live.unified
                         /\ first_opening' =
                               IF ~IsNone(opening)
                               THEN NoteOpeningCall(game_id, open_team, open_spread)
                               ELSE first_opening
                         /\ alert_polls' = IF alert
                                           THEN [alert_polls EXCEPT ![game_id] = @ + 1]
                                           ELSE alert_polls
                         /\ IF alert /\ NotInAlertedGames(game_id, alerted_games)
                            THEN /\ alerts' = db.alerts
                                 /\ bet_outcomes' = db.legacy
                                 /\ bets' = db.unified
                                 /\ outcome_writes' = db.writes
                                 /\ alerted_games' = alerted_games \cup {game_id}
                            ELSE UNCHANGED <<alerts, bet_outcomes, bets,
                                             outcome_writes, alerted_games>>
    /\ UNCHANGED <<pureVars, clock, game_results, pc, espn_game_cache,
                   stopped_games, empty_poll_count, busy_polls, polls,
                   scores_final, obtained, simulated_bets, monitor_games, send_outcome, historical_odds_cache, storeVars>>

\* what the scores API answers for a sport when the games in `final` are
\* over: a completed entry for each of them, nothing for the others
FinalScores(sport, final) ==
    [g \in SportGames(sport) |->
        IF g \in final
        THEN Some([completed |-> TRUE, home_first |-> TRUE, h |-> "1", w |-> "0"])
        ELSE None]

\* the games that began more than three hours ago, the cutoff of
\* get_games_needing_results
GamesPastCutoff == { g \in GameIds : ApiGame(g).commence_time < clock - 3 }

\* after the games of the poll: tracker.fetch_and_record_game_results(),
\* called with its default sport.  A game that is over stays over; the
\* games that began together are over together, and none counts as over
\* before the cutoff of get_games_needing_results, since before it the
\* monitor does not ask for the game's score
FetchResultsAfterPoll ==
    /\ pc = "games"
    /\ live_games = <<>>
    /\ \E final \in {scores_final, GamesPastCutoff} :
          /\ scores_final \subseteq final
          /\ scores_final' = final
          /\ IF get_games_needing_results = {}
             THEN UNCHANGED game_results
             ELSE game_results' =
                      fetch_and_record_game_results(
                          ScoreResponse("basketball_ncaab",
                                        FinalScores("basketball_ncaab", final)))
    /\ pc' = "resolve"
    /\ UNCHANGED <<pureVars, clock, snapVars, games, alerts, bet_outcomes, bets,
                   outcome_writes, live_games, espn_game_cache, opening_lines,
                   opening_line_cache, stopped_games, alerted_games,
                   empty_poll_count, credit_stats, busy_polls, polls, alert_polls,
                   obtained, simulated_bets, monitor_games, send_outcome, historical_odds_cache, storeVars>>

\* tracker.resolve_pending_bets(), then time.sleep(POLL_INTERVAL): the
\* clock stays in its hour or moves on
ResolveAndSleep ==
    /\ pc = "resolve"
    /\ LET t == resolve_pending_bets IN
          /\ bet_outcomes' = t.legacy
          /\ bets' = t.unified
          /\ outcome_writes' = t.writes
    /\ \/ UNCHANGED clock
       \/ /\ clock + ClockStep <= MaxClock
          /\ clock' = clock + ClockStep
    /\ pc' = "poll"
    /\ UNCHANGED <<pureVars, snapVars, games, game_results, alerts, live_games,
                   espn_game_cache, opening_lines, opening_line_cache,
                   stopped_games, alerted_games, empty_poll_count, credit_stats,
                   busy_polls, polls, alert_polls, scores_final, obtained, simulated_bets, monitor_games, send_outcome, historical_odds_cache, storeVars>>

InitLive == PureIdle /\ DbInit /\ SnapInit /\ LiveInit

NextLive ==
    \/ Poll
    \/ MonitorGame
    \/ FetchResultsAfterPoll
    \/ ResolveAndSleep

SpecLive == InitLive /\ [][NextLive]_vars

---------------------------------------------------------------------------
(* Claims about the poll loop, checked under SpecLive *)

AlertsOf(g) == { i \in DOMAIN alerts : alerts[i].game_id = g }
LegacyBetsOf(g) == { i \in DOMAIN bet_outcomes : bet_outcomes[i].game_id = g }
UnifiedBetsOf(g) == { i \in DOMAIN bets : bets[i].game_id = g }

\* C3: over any sequence of poll cycles at most one alert and at most one
\* bet (one row in bet_outcomes and one in bets) are recorded per game_id,
\* however many polls score the game at or above MIN_ALERT_SCORE.
C3_OneAlertOneBetPerGame ==
    \A g \in GameIds :
        /\ Cardinality(AlertsOf(g)) <= 1
        /\ Cardinality(LegacyBetsOf(g)) <= 1
        /\ Cardinality(UnifiedBetsOf(g)) <= 1

\* C3 witness: a game scored at or above the threshold in two polls of the
\* run and has its one alert and its one bet
C3_Witness ==
    \E g \in GameIds :
        /\ alert_polls[g] >= 2
        /\ Cardinality(AlertsOf(g)) = 1
        /\ Cardinality(LegacyBetsOf(g)) = 1
        /\ Cardinality(UnifiedBetsOf(g)) = 1

---------------------------------------------------------------------------
(* scripts/watch_live.py: calculate_bet_size.  bankroll and the stake are
   amounts of money in cents; win_prob and every intermediate float are
   exact rationals kept in lowest terms with a positive denominator. *)

RECURSIVE GCD(_, _)
GCD(a, b) == IF b = 0 THEN a ELSE GCD(b, a % b)

\* n/d for d # 0, in lowest terms with a positive denominator
RatNorm(n, d) ==
    LET g == GCD(Abs(n), Abs(d))
        sgn == IF d < 0 THEN -1 ELSE 1
    IN  Rat(sgn * (n \div g), sgn * (d \div g))

RatMul(x, y) == RatNorm(x.num * y.num, x.den * y.den)
RatSub(x, y) == RatNorm(x.num * y.den - y.num * x.den, x.den * y.den)
\* x / y for y # 0
RatDiv(x, y) == RatNorm(x.num * y.den, x.den * y.num)
RatMin(x, y) == IF RatGE(y, x.num, x.den) THEN x ELSE y
RatMax(x, y) == IF RatGE(x, y.num, y.den) THEN x ELSE y

\* full Kelly instead of quarter Kelly
KELLY_FRACTION_full == Rat(1, 1)

KELLY_FRACTION == Rat(1, 4)

\* round(bankroll * bet_pct, 2) in cents, for the exact product x in cents:
\* the nearest cent; at an exact half cent the float product carries a
\* representation error to either side, so either neighbour can come out
RoundCents(x) ==
    LET q == x.num \div x.den
        r == x.num % x.den
    IN  IF 2 * r < x.den THEN {q}
        ELSE IF 2 * r > x.den THEN {q + 1}
        ELSE {q, q + 1}

\* calculate_bet_size with the fraction left uncapped above
calculate_bet_size_uncapped(bankroll, win_prob, odds) ==
    LET b == IF odds < 0 THEN RatNorm(100, Abs(odds)) ELSE RatNorm(odds, 100)
        p == win_prob
        q == RatSub(Rat(1, 1), p)
    IN  IF b.num = 0
        THEN {[raises |-> Some("ZeroDivisionError"), stake |-> None]}
        ELSE LET kelly_pct == RatDiv(RatSub(RatMul(b, p), q), b)
                 bet_pct == RatMax(Rat(0, 1), RatMul(kelly_pct, KELLY_FRACTION))
             IN  { [raises |-> None, stake |-> Some(c)] :
                     c \in RoundCents(RatMul(Rat(bankroll, 1), bet_pct)) }

\* calculate_bet_size: the outcomes the call can have, a stake in cents or
\* the exception of the division (b * p - q) / b when odds is 0
calculate_bet_size(bankroll, win_prob, odds) ==
    LET b == IF odds < 0 THEN RatNorm(100, Abs(odds)) ELSE RatNorm(odds, 100)
        p == win_prob
        q == RatSub(Rat(1, 1), p)
    IN  IF b.num = 0
        THEN {[raises |-> Some("ZeroDivisionError"), stake |-> None]}
        ELSE LET kelly_pct == RatDiv(RatSub(RatMul(b, p), q), b)
                 bet_pct == RatMax(Rat(0, 1), RatMin(RatMul(kelly_pct, KELLY_FRACTION), Rat(1, 5)))
             IN  { [raises |-> None, stake |-> Some(c)] :
                     c \in RoundCents(RatMul(Rat(bankroll, 1), bet_pct)) }

\* bankrolls in cents: nothing, a few cents, 100.00 and 100.03
BankrollInputs == {0, 3, 12, 13, 10000, 10003}
\* win probabilities in thousandths, some outside (0,1)
WinProbInputs == {Rat(n, 1000) : n \in {-200, 0, 500, 524, 600, 887, 900,
                                        1000, 1500}}
\* American odds, and 0
OddsInputs == {-200, -110, 0, 100, 150}

SizeCalls ==
    [ fn : {"calculate_bet_size"},
      bankroll : BankrollInputs,
      win_prob : WinProbInputs,
      odds : OddsInputs ]

ApplySize ==
    /\ call.fn = "calculate_bet_size"
    /\ IsNone(ret)
    /\ \E out \in calculate_bet_size(call.bankroll, call.win_prob, call.odds) :
           ret' = Some(out)
    /\ UNCHANGED <<call, liveVars, clock, dbVars, snapVars>>

InitSize == call \in SizeCalls /\ ret = None /\ DbInit /\ SnapInit /\ LiveInit

NextSize == ApplySize

SpecSize == InitSize /\ [][NextSize]_vars

---------------------------------------------------------------------------
(* Claims about calculate_bet_size, checked under SpecSize *)

Sized == Returned /\ call.fn = "calculate_bet_size"

\* the call is inside the domain the sizer is specified for: a bankroll that
\* is not negative, a probability strictly between 0 and 1, American odds
SizeDomain ==
    /\ call.bankroll >= 0
    /\ call.win_prob.num > 0
    /\ call.win_prob.num < call.win_prob.den
    /\ call.odds # 0

\* numerator and denominator of the raw Kelly fraction (b*p - (1-p)) / b of
\* the call, b = 100/|odds| for negative odds and odds/100 otherwise, written
\* out over the common denominator (positive when odds # 0)
RawKellyNum ==
    LET pn == call.win_prob.num
        pd == call.win_prob.den
    IN  IF call.odds < 0 THEN 100 * pn - Abs(call.odds) * (pd - pn)
                         ELSE call.odds * pn - 100 * (pd - pn)

RawKellyDen ==
    call.win_prob.den * (IF call.odds < 0 THEN 100 ELSE call.odds)

\* max(0, min(raw Kelly * 0.25, 0.20)) of the call
AppliedFraction ==
    IF RawKellyNum <= 0 THEN Rat(0, 1)
    ELSE IF 5 * RawKellyNum >= 4 * RawKellyDen THEN Rat(1, 5)
    ELSE RatNorm(RawKellyNum, 4 * RawKellyDen)

\* C13 (as stated): for every bankroll >= 0, every probability in (0,1) and
\* every American odds value the stake is never negative and never more
\* than 20% of the bankroll, and it is 0 whenever the raw Kelly fraction is
\* negative or zero.
C13_StakeWithinCapExact ==
    (Sized /\ SizeDomain) =>
        /\ IsNone(Val(ret).raises)
        /\ Val(Val(ret).stake) >= 0
        /\ 5 * Val(Val(ret).stake) <= call.bankroll
        /\ (RawKellyNum <= 0 => Val(Val(ret).stake) = 0)

\* C13 (amended): on the same domain the stake is never negative, it is
\* never more than half a cent above 20% of the bankroll (the capped amount
\* is rounded to a whole cent), and it is 0 whenever the raw Kelly fraction
\* is negative or zero.
C13_StakeWithinRoundedCap ==
    (Sized /\ SizeDomain) =>
        /\ IsNone(Val(ret).raises)
        /\ Val(Val(ret).stake) >= 0
        /\ 10 * Val(Val(ret).stake) <= 2 * call.bankroll + 5
        /\ (RawKellyNum <= 0 => Val(Val(ret).stake) = 0)

\* C13 witness: 100.00 at probability 0.9 and odds +150, where quarter
\* Kelly is above the cap, is staked 20.00.
C13_Witness ==
    /\ Sized
    /\ call.bankroll = 10000
    /\ call.win_prob = Rat(900, 1000)
    /\ call.odds = 150
    /\ 5 * RawKellyNum >= 4 * RawKellyDen
    /\ Val(ret).stake = Some(2000)

\* C14: the stake is bankroll * max(0, min(f * 0.25, 0.20)) rounded to
\* cents, with b = 100/|odds| for negative odds and odds/100 otherwise and
\* f = (b*p - (1-p)) / b; for bankroll 100, p = 0.887, odds -110 the stake
\* is positive and at most 20.
C14_QuarterKellyFormula ==
    (Sized /\ call.odds # 0) =>
        /\ IsNone(Val(ret).raises)
        /\ LET f == AppliedFraction
               d == Val(Val(ret).stake) * f.den - call.bankroll * f.num
           IN  2 * Abs(d) <= f.den
        /\ (call.bankroll = 10000 /\ call.win_prob = Rat(887, 1000) /\ call.odds = -110) =>
               (Val(Val(ret).stake) > 0 /\ Val(Val(ret).stake) <= 2000)

\* C14 witness: bankroll 100, p = 0.887, odds -110 is staked 19.07.
C14_Witness ==
    /\ Sized
    /\ call.bankroll = 10000
    /\ call.win_prob = Rat(887, 1000)
    /\ call.odds = -110
    /\ Val(ret).stake = Some(1907)

\* C15: a win probability outside (0,1) makes the sizer fail with a
\* validation error instead of returning a stake.
C15_InvalidProbabilityRejected ==
    (Sized /\ ~(call.win_prob.num > 0 /\ call.win_prob.num < call.win_prob.den)) =>
        /\ IsNone(Val(ret).stake)
        /\ Val(ret).raises \notin {None, Some("ZeroDivisionError")}

---------------------------------------------------------------------------
(* The places that compute the spread change: scripts/backfill.py
   calculate_spread_change, db/models.py Game.spread_change and the
   pct_change of main in scripts/watch_live.py.  Spreads are nullable half
   points, an Odds object is a nullable record. *)

\* backfill.py: calculate_spread_change(opening, current)
calculate_spread_change(opening, current) ==
    IF IsNone(opening) \/ IsNone(current) THEN None
    ELSE IF Val(opening) = 0 THEN None
    ELSE Some(PctChange(Val(current), Val(opening)))

\* python truthiness of an Optional[float]: None and 0.0 are false
Truthy(x) == ~IsNone(x) /\ Val(x) # 0

\* models.py: Game.spread_change for the game's opening_odds and
\* current_odds (None or an Odds with a nullable spread_home)
Game_spread_change(opening_odds, current_odds) ==
    IF IsNone(opening_odds) \/ IsNone(current_odds) THEN None
    ELSE IF ~Truthy(Val(opening_odds).spread_home) \/ ~Truthy(Val(current_odds).spread_home) THEN None
    ELSE IF Val(Val(opening_odds).spread_home) = 0 THEN None
    ELSE Some(PctChange(Val(Val(current_odds).spread_home), Val(Val(opening_odds).spread_home)))

\* watch_live.py main: the game is left at line 643 without a current
\* spread, nothing is computed without an opening line, and pct_change is
\* computed under `if open_spread and open_spread != 0`
main_pct_change(open_spread, current_spread) ==
    IF IsNone(current_spread) THEN None
    ELSE IF IsNone(open_spread) THEN None
    ELSE IF Truthy(open_spread) /\ Val(open_spread) # 0
         THEN Some(PctChange(Val(current_spread), Val(open_spread)))
         ELSE None

\* nullable spreads in half points: missing, 0, and lines of either sign
ChangeSpreads == {None} \cup {Some(x) : x \in {0, -Pts(6), -Pts(3), -1, Pts(2), Pts(5)}}

\* an Odds object around a spread, or no Odds object at all
OddsObjects == {None} \cup {Some([spread_home |-> s]) : s \in ChangeSpreads}

ChangeCalls ==
    [ fn : {"calculate_spread_change", "main_pct_change"}, opening : ChangeSpreads, current : ChangeSpreads ]
    \cup [ fn : {"Game_spread_change"}, opening : OddsObjects, current : OddsObjects ]

ApplyChange ==
    /\ call.fn \in {"calculate_spread_change", "main_pct_change", "Game_spread_change"}
    /\ IsNone(ret)
    /\ ret' = Some(CASE call.fn = "calculate_spread_change" ->
                           calculate_spread_change(call.opening, call.current)
                     [] call.fn = "main_pct_change" ->
                           main_pct_change(call.opening, call.current)
                     [] call.fn = "Game_spread_change" ->
                           Game_spread_change(call.opening, call.current))
    /\ UNCHANGED <<call, liveVars, clock, dbVars, snapVars>>

InitChange == call \in ChangeCalls /\ ret = None /\ DbInit /\ SnapInit /\ LiveInit

NextChange == ApplyChange

SpecChange == InitChange /\ [][NextChange]_vars

Changed == Returned /\ call.fn \in {"calculate_spread_change", "main_pct_change", "Game_spread_change"}

\* the opening and the current spread of the call, whichever place it is
\* for (a missing Odds object is a missing spread)
SpreadOfArg(a) ==
    IF call.fn = "Game_spread_change"
    THEN IF IsNone(a) THEN None ELSE Val(a).spread_home
    ELSE a

\* C16: every place that computes the spread change returns
\* abs(current / opening) - 1 when both spreads are present and the opening
\* spread is not 0, and null when the opening spread is 0 or either spread
\* is missing; a present current spread of exactly 0 yields -1, not null.
C16_SpreadChangeEverywhere ==
    Changed =>
        LET o == SpreadOfArg(call.opening)
            c == SpreadOfArg(call.current)
            r == Val(ret)
        IN  IF IsNone(o) \/ IsNone(c) \/ (~IsNone(o) /\ Val(o) = 0)
            THEN IsNone(r)
            ELSE /\ ~IsNone(r)
                 /\ Val(r).den > 0
                 /\ Val(r).num * Abs(Val(o)) = (Abs(Val(c)) - Abs(Val(o))) * Val(r).den
                 /\ (Val(c) = 0 => Val(r).num = -Val(r).den)

---------------------------------------------------------------------------
(* Spread extraction: scripts/backfill.py get_spread_from_bookmakers and
   db/models.py Odds.from_api_response.  A bookmaker block is
   [key, markets], a market [key, outcomes], an outcome
   [name, point, price] with a nullable point (h2h outcomes have none). *)

AllNull == [home_spread |-> None, away_spread |-> None, home_price |-> None, away_price |-> None]

\* the outcomes loop with the first of two outcomes taken as the home side
RECURSIVE SpreadOutcomesPositional(_, _, _)
SpreadOutcomesPositional(outcomes, home_team, acc) ==
    IF outcomes = <<>> THEN acc
    ELSE LET outcome == Head(outcomes)
         IN  SpreadOutcomesPositional(Tail(outcomes), home_team,
                 IF Len(outcomes) > 1
                 THEN [acc EXCEPT !.home_spread = outcome.point, !.home_price = Some(outcome.price)]
                 ELSE [acc EXCEPT !.away_spread = outcome.point, !.away_price = Some(outcome.price)])

\* `for outcome in market.get("outcomes", [])` of both extractors
RECURSIVE SpreadOutcomes(_, _, _)
SpreadOutcomes(outcomes, home_team, acc) ==
    IF outcomes = <<>> THEN acc
    ELSE LET outcome == Head(outcomes)
         IN  SpreadOutcomes(Tail(outcomes), home_team,
                 IF outcome.name = home_team
                 THEN [acc EXCEPT !.home_spread = outcome.point, !.home_price = Some(outcome.price)]
                 ELSE [acc EXCEPT !.away_spread = outcome.point, !.away_price = Some(outcome.price)])

\* the first market of the block whose key is "spreads", or None
RECURSIVE FirstSpreadsMarket(_)
FirstSpreadsMarket(markets) ==
    IF markets = <<>> THEN None
    ELSE IF Head(markets).key = "spreads" THEN Some(Head(markets))
    ELSE FirstSpreadsMarket(Tail(markets))

\* get_spread_from_bookmakers reading the spreads market of any bookmaker
RECURSIVE get_spread_from_any_bookmaker(_, _)
get_spread_from_any_bookmaker(bookmakers, home_team) ==
    IF bookmakers = <<>> THEN AllNull
    ELSE LET bm == Head(bookmakers)
             market == FirstSpreadsMarket(bm.markets)
         IN  IF ~IsNone(market)
             THEN SpreadOutcomes(Val(market).outcomes, home_team, AllNull)
             ELSE get_spread_from_any_bookmaker(Tail(bookmakers), home_team)

\* backfill.py: get_spread_from_bookmakers(bookmakers, home_team)
RECURSIVE get_spread_from_bookmakers(_, _)
get_spread_from_bookmakers(bookmakers, home_team) ==
    IF bookmakers = <<>> THEN AllNull
    ELSE LET bm == Head(bookmakers)
             market == FirstSpreadsMarket(bm.markets)
         IN  IF bm.key = "fanduel" /\ ~IsNone(market)
             THEN SpreadOutcomes(Val(market).outcomes, home_team, AllNull)
             ELSE get_spread_from_bookmakers(Tail(bookmakers), home_team)

\* Odds(): every field None
EmptyOdds ==
    [ spread_home |-> None, spread_away |-> None, spread_home_price |-> None, spread_away_price |-> None,
      moneyline_home |-> None, moneyline_away |-> None,
      total |-> None, over_price |-> None, under_price |-> None ]

\* the h2h outcomes loop of from_api_response
RECURSIVE MoneylineOutcomes(_, _, _)
MoneylineOutcomes(outcomes, home_team, odds) ==
    IF outcomes = <<>> THEN odds
    ELSE MoneylineOutcomes(Tail(outcomes), home_team,
             IF Head(outcomes).name = home_team
             THEN [odds EXCEPT !.moneyline_home = Some(Head(outcomes).price)]
             ELSE [odds EXCEPT !.moneyline_away = Some(Head(outcomes).price)])

\* the totals outcomes loop of from_api_response
RECURSIVE TotalsOutcomes(_, _)
TotalsOutcomes(outcomes, odds) ==
    IF outcomes = <<>> THEN odds
    ELSE TotalsOutcomes(Tail(outcomes),
             IF Head(outcomes).name = "Over"
             THEN [odds EXCEPT !.total = Head(outcomes).point, !.over_price = Some(Head(outcomes).price)]
             ELSE [odds EXCEPT !.under_price = Some(Head(outcomes).price)])

\* `for market in bookmaker.get("markets", [])` of from_api_response
RECURSIVE OddsOfMarkets(_, _, _)
OddsOfMarkets(markets, home_team, odds) ==
    IF markets = <<>> THEN odds
    ELSE LET market == Head(markets)
         IN  OddsOfMarkets(Tail(markets), home_team,
                 CASE market.key = "spreads" ->
                        LET s == SpreadOutcomes(market.outcomes, home_team,
                                     [ home_spread |-> odds.spread_home, away_spread |-> odds.spread_away,
                                       home_price |-> odds.spread_home_price, away_price |-> odds.spread_away_price ])
                        IN  [odds EXCEPT !.spread_home = s.home_spread, !.spread_away = s.away_spread,
                                         !.spread_home_price = s.home_price, !.spread_away_price = s.away_price]
                   [] market.key = "h2h" -> MoneylineOutcomes(market.outcomes, home_team, odds)
                   [] market.key = "totals" -> TotalsOutcomes(market.outcomes, odds)
                   [] OTHER -> odds)

\* `for bookmaker in game.get("bookmakers", [])` of from_api_response
RECURSIVE OddsOfBookmakers(_, _, _, _)
OddsOfBookmakers(bookmakers, home_team, bookmaker_key, odds) ==
    IF bookmakers = <<>> THEN odds
    ELSE OddsOfBookmakers(Tail(bookmakers), home_team, bookmaker_key,
             IF Head(bookmakers).key # bookmaker_key THEN odds
             ELSE OddsOfMarkets(Head(bookmakers).markets, home_team, odds))

\* models.py: Odds.from_api_response(game, bookmaker_key = "fanduel")
Odds_from_api_response(game, bookmaker_key) ==
    OddsOfBookmakers(game.bookmakers, game.home_team, bookmaker_key, EmptyOdds)

\* the two teams of the event, either of which can be the home team
ExtractTeams == {DUKE, IOWA}

\* a spreads market of the event: the outcome of `home` at pt, the other
\* team at -pt, in either order, or a market without outcomes
SpreadsMarkets(home) ==
    LET away == CHOOSE t \in ExtractTeams : t # home
    IN  { [key |-> "spreads", outcomes |-> <<>>] } \cup
        UNION { LET h == [name |-> home, point |-> Some(pt), price |-> -115]
                    a == [name |-> away, point |-> Some(-pt), price |-> -105]
                IN  { [key |-> "spreads", outcomes |-> <<h, a>>],
                      [key |-> "spreads", outcomes |-> <<a, h>>] }
                : pt \in {-Pts(3), 0, Pts(2)} }

H2hMarket(home) ==
    LET away == CHOOSE t \in ExtractTeams : t # home
    IN  [key |-> "h2h", outcomes |-> << [name |-> away, point |-> None, price |-> 130],
                                         [name |-> home, point |-> None, price |-> -150] >>]

TotalsMarket ==
    [key |-> "totals", outcomes |-> << [name |-> "Over", point |-> Some(Pts(145)), price |-> -110],
                                        [name |-> "Under", point |-> Some(Pts(145)), price |-> -112] >>]

\* the market lists of the target bookmaker: none, no spreads market, and a
\* spreads market alone, after or before another market
FanduelMarkets(home) ==
    { <<>>, <<H2hMarket(home)>>, <<H2hMarket(home), TotalsMarket>> } \cup
    UNION { { <<s>>, <<H2hMarket(home), s>>, <<s, TotalsMarket>> } : s \in SpreadsMarkets(home) }

\* another bookmaker quoting the same event at another line
OtherBookmaker(home) ==
    LET away == CHOOSE t \in ExtractTeams : t # home
    IN  [ key |-> "draftkings",
          markets |-> << [key |-> "spreads",
                          outcomes |-> << [name |-> home, point |-> Some(Pts(7)), price |-> -108],
                                          [name |-> away, point |-> Some(-Pts(7)), price |-> -112] >>] >> ]

\* bookmaker lists of an event whose home team is `home`: empty, without
\* the target bookmaker, and with it alone, last or first
BookmakerLists(home) ==
    { <<>>, <<OtherBookmaker(home)>> } \cup
    UNION { LET fd == [key |-> "fanduel", markets |-> m]
            IN  { <<fd>>, <<OtherBookmaker(home), fd>>, <<fd, OtherBookmaker(home)>> }
            : m \in FanduelMarkets(home) }

ExtractCalls ==
    UNION { [ fn : {"get_spread_from_bookmakers", "Odds_from_api_response"},
              bookmakers : BookmakerLists(home),
              home_team : {home} ] : home \in ExtractTeams }

ApplyExtract ==
    /\ call.fn \in {"get_spread_from_bookmakers", "Odds_from_api_response"}
    /\ IsNone(ret)
    /\ ret' = Some(IF call.fn = "get_spread_from_bookmakers"
                   THEN get_spread_from_bookmakers(call.bookmakers, call.home_team)
                   ELSE Odds_from_api_response([home_team |-> call.home_team, bookmakers |-> call.bookmakers], "fanduel"))
    /\ UNCHANGED <<call, liveVars, clock, dbVars, snapVars>>

InitExtract == call \in ExtractCalls /\ ret = None /\ DbInit /\ SnapInit /\ LiveInit

NextExtract == ApplyExtract

SpecExtract == InitExtract /\ [][NextExtract]_vars

---------------------------------------------------------------------------
(* Claims about spread extraction, checked under SpecExtract *)

Extracted == Returned /\ call.fn \in {"get_spread_from_bookmakers", "Odds_from_api_response"}

\* the four extracted values, under the names of the tuple of
\* get_spread_from_bookmakers
ExtractedSpread ==
    IF call.fn = "get_spread_from_bookmakers" THEN Val(ret)
    ELSE [ home_spread |-> Val(ret).spread_home, away_spread |-> Val(ret).spread_away,
           home_price |-> Val(ret).spread_home_price, away_price |-> Val(ret).spread_away_price ]

\* the spreads markets of the target bookmaker in the list of the call
TargetSpreadsMarkets ==
    { call.bookmakers[i].markets[j] :
        <<i, j>> \in { ij \in (DOMAIN call.bookmakers) \X (1..2) :
                         /\ call.bookmakers[ij[1]].key = "fanduel"
                         /\ ij[2] \in DOMAIN call.bookmakers[ij[1]].markets
                         /\ call.bookmakers[ij[1]].markets[ij[2]].key = "spreads" } }

\* C17: spread extraction returns (null, null, null, null) whenever the
\* target bookmaker block is absent from the list or that block has no
\* "spreads" market, including for an empty bookmaker list.
C17_AbsentGivesAllNull ==
    (Extracted /\ TargetSpreadsMarkets = {}) => ExtractedSpread = AllNull

\* C17 witness: the list holds another bookmaker with a spreads market and
\* the target bookmaker with an h2h market only; all four values are null.
C17_Witness ==
    /\ Extracted
    /\ call.fn = "get_spread_from_bookmakers"
    /\ call.bookmakers = << OtherBookmaker(DUKE), [key |-> "fanduel", markets |-> <<H2hMarket(DUKE)>>] >>
    /\ Val(ret) = AllNull

\* C18: when the target bookmaker has a spreads market, the home spread and
\* price are the point and price of the outcome whose name equals the
\* supplied home-team string, the away spread and price those of the other
\* outcome, whatever the order of the outcomes.
C18_HomeByName ==
    (Extracted /\ TargetSpreadsMarkets # {}) =>
        \A m \in TargetSpreadsMarkets : \A k \in DOMAIN m.outcomes :
            IF m.outcomes[k].name = call.home_team
            THEN /\ ExtractedSpread.home_spread = m.outcomes[k].point
                 /\ ExtractedSpread.home_price = Some(m.outcomes[k].price)
            ELSE /\ ExtractedSpread.away_spread = m.outcomes[k].point
                 /\ ExtractedSpread.away_price = Some(m.outcomes[k].price)

\* C18 witness: the away outcome comes first in the market and the home
\* team, named second, still gets its own point -3.0 and price -115.
C18_Witness ==
    /\ Extracted
    /\ call.fn = "get_spread_from_bookmakers"
    /\ call.home_team = IOWA
    /\ \E m \in TargetSpreadsMarkets : Len(m.outcomes) = 2 /\ m.outcomes[2].name = IOWA
    /\ Val(ret) = [ home_spread |-> Some(-Pts(3)), away_spread |-> Some(Pts(3)),
                    home_price |-> Some(-115), away_price |-> Some(-105) ]

---------------------------------------------------------------------------
(* The aggregators: core/tracker.py get_strategy_stats, db/storage.py
   get_bet_stats and get_simulated_bet_stats, scripts/analyze.py
   load_all_bets and analyze_by_threshold.  A bet row carries covered and
   profit as nullable columns, pct_change as an exact rational; a quotient
   is a rational whose denominator 0 stands for ZeroDivisionError. *)

MaxStatBets == 3

\* n / d of python: raises ZeroDivisionError for d = 0
PyDiv(n, d) == Rat(n, d)

\* the rows of a list, as a set
RowsOf(rows) == { rows[i] : i \in DOMAIN rows }

\* `[b for b in rows if b passes]` for the set `keep` of the rows that
\* pass: the rows kept, in order, from position i on
RECURSIVE SelectRows(_, _, _)
SelectRows(rows, keep, i) ==
    IF i > Len(rows) THEN <<>>
    ELSE (IF rows[i] \in keep THEN <<rows[i]>> ELSE <<>>) \o SelectRows(rows, keep, i + 1)

\* the resolved filter keeping a pending bet as a lost one
ResolvedBetsPendingLost(rows) ==
    [ i \in DOMAIN rows |->
        IF IsNone(rows[i].covered)
        THEN [rows[i] EXCEPT !.covered = Some(0), !.profit = Some(-110)]
        ELSE rows[i] ]

\* `[b for b in all_bets if b.get("covered") is not None]`
ResolvedBets(rows) ==
    LET Keep(b) == ~IsNone(b.covered) IN SelectRows(rows, {b \in RowsOf(rows) : Keep(b)}, 1)

\* sum(1 for b in resolved if b["covered"])
RECURSIVE CountWins(_)
CountWins(rows) ==
    IF rows = <<>> THEN 0
    ELSE (IF Val(Head(rows).covered) # 0 THEN 1 ELSE 0) + CountWins(Tail(rows))

\* sum(b.get("profit", 0) for b in resolved)
RECURSIVE SumProfit(_)
SumProfit(rows) ==
    IF rows = <<>> THEN 0 ELSE Val(Head(rows).profit) + SumProfit(Tail(rows))

ZeroStats ==
    [ total_bets |-> 0, wins |-> 0, losses |-> 0, win_rate |-> Rat(0, 1), total_profit |-> 0, roi |-> Rat(0, 1) ]

\* the statistics with the return on a stake of 100 per bet
StrategyStatsFlatStake(resolved) ==
    IF resolved = <<>> THEN ZeroStats
    ELSE LET wins == CountWins(resolved)
             total_profit == SumProfit(resolved)
         IN  [ total_bets |-> Len(resolved), wins |-> wins, losses |-> Len(resolved) - wins,
               win_rate |-> PyDiv(wins, Len(resolved)),
               total_profit |-> total_profit,
               roi |-> PyDiv(total_profit, Len(resolved) * 100) ]

\* the tail the three aggregators share: the all-zero dict for no bets,
\* else the counts, win_rate, total_profit and roi over total_wagered
StrategyStats(resolved) ==
    IF resolved = <<>> THEN ZeroStats
    ELSE LET wins == CountWins(resolved)
             losses == Len(resolved) - wins
             total_profit == SumProfit(resolved)
             total_wagered == Len(resolved) * 110
         IN  [ total_bets |-> Len(resolved), wins |-> wins, losses |-> losses,
               win_rate |-> IF resolved # <<>> THEN PyDiv(wins, Len(resolved)) ELSE Rat(0, 1),
               total_profit |-> total_profit,
               roi |-> IF total_wagered # 0 THEN PyDiv(total_profit, total_wagered) ELSE Rat(0, 1) ]

\* tracker.py: get_strategy_stats over the rows of storage.get_all_bets()
get_strategy_stats(all_bets, min_pct_change, min_mins_remaining) ==
    LET resolved == ResolvedBets(all_bets)
        KeepPct(b) == RatGE(Val(b.pct_change), Val(min_pct_change).num, Val(min_pct_change).den)
        by_pct == IF ~IsNone(min_pct_change) THEN SelectRows(resolved, {b \in RowsOf(resolved) : KeepPct(b)}, 1) ELSE resolved
        KeepMins(b) == (IF Truthy(b.mins_remaining) THEN Val(b.mins_remaining) ELSE 0) >= Val(min_mins_remaining)
        by_mins == IF ~IsNone(min_mins_remaining) THEN SelectRows(by_pct, {b \in RowsOf(by_pct) : KeepMins(b)}, 1) ELSE by_pct
    IN  StrategyStats(by_mins)

\* storage.py: get_bets(source, strategy, resolved_only) over the rows of
\* bets JOIN games; an empty or missing filter string filters nothing
get_bets(rows, source, strategy, resolved_only) ==
    LET Keep(b) == /\ (~IsNone(source) /\ Val(source) # "") => b.source = Val(source)
                   /\ (~IsNone(strategy) /\ Val(strategy) # "") => b.strategy = Val(strategy)
                   /\ resolved_only => ~IsNone(b.covered)
    IN  SelectRows(rows, {b \in RowsOf(rows) : Keep(b)}, 1)

\* storage.py: get_bet_stats(source, strategy, min_pct_change)
get_bet_stats(rows, source, strategy, min_pct_change) ==
    LET bets0 == get_bets(rows, source, strategy, TRUE)
        KeepPct(b) ==
            LET pct == IF IsNone(b.pct_change) \/ Val(b.pct_change).num = 0 THEN Rat(0, 1) ELSE Val(b.pct_change)
            IN  RatGE(pct, Val(min_pct_change).num, Val(min_pct_change).den)
    IN  StrategyStats(IF ~IsNone(min_pct_change) THEN SelectRows(bets0, {b \in RowsOf(bets0) : KeepPct(b)}, 1) ELSE bets0)

\* storage.py: get_simulated_bets(strategy, sport) over the rows of
\* simulated_bets JOIN games
get_simulated_bets(rows, strategy, sport) ==
    LET Keep(b) == /\ (~IsNone(strategy) /\ Val(strategy) # "") => b.strategy = Val(strategy)
                   /\ (~IsNone(sport) /\ Val(sport) # "") => b.sport = Val(sport)
    IN  SelectRows(rows, {b \in RowsOf(rows) : Keep(b)}, 1)

\* storage.py: get_simulated_bet_stats(strategy, sport, min_pct_change)
get_simulated_bet_stats(rows, strategy, sport, min_pct_change) ==
    LET resolved == ResolvedBets(get_simulated_bets(rows, strategy, sport))
        KeepPct(b) == RatGE(Val(b.pct_change), Val(min_pct_change).num, Val(min_pct_change).den)
    IN  StrategyStats(IF ~IsNone(min_pct_change) THEN SelectRows(resolved, {b \in RowsOf(resolved) : KeepPct(b)}, 1) ELSE resolved)

\* analyze.py: load_all_bets, the BetRecords of the rows WHERE covered IS
\* NOT NULL with spread_change_pct = pct_change * 100 and covered as a bool
load_all_bets(rows) ==
    LET resolved == ResolvedBets(rows)
    IN  [ i \in DOMAIN resolved |->
            [ spread_change_pct |-> RatMul(IF IsNone(resolved[i].pct_change) THEN Rat(0, 1)
                                           ELSE Val(resolved[i].pct_change), Rat(100, 1)),
              covered |-> Val(resolved[i].covered) # 0,
              profit |-> IF IsNone(resolved[i].profit) THEN 0 ELSE Val(resolved[i].profit) ] ]

\* range(25, 325, 25)
Thresholds == {25 * k : k \in 1..12}

\* the bets of analyze_by_threshold that meet a threshold
MatchingBets(records, threshold) ==
    LET Keep(b) == RatGE(b.spread_change_pct, threshold, 1) IN SelectRows(records, {b \in RowsOf(records) : Keep(b)}, 1)

RECURSIVE SumRecordProfit(_)
SumRecordProfit(records) ==
    IF records = <<>> THEN 0 ELSE Head(records).profit + SumRecordProfit(Tail(records))

\* analyze.py: analyze_by_threshold, its results_by_threshold; win_rate and
\* roi are percentages
analyze_by_threshold(records) ==
    LET Wins(m) == Len(SelectRows(m, {b \in RowsOf(m) : b.covered}, 1))
        Losses(m) == Len(SelectRows(m, {b \in RowsOf(m) : ~b.covered}, 1))
        Kept == { t \in Thresholds : MatchingBets(records, t) # <<>>
                                     /\ Wins(MatchingBets(records, t)) + Losses(MatchingBets(records, t)) # 0 }
    IN  [ t \in Kept |->
            LET matching == MatchingBets(records, t)
                wins == Wins(matching)
                total == wins + Losses(matching)
                profit == SumRecordProfit(matching)
            IN  [ bets |-> total, wins |-> wins,
                  win_rate |-> RatMul(PyDiv(wins, total), Rat(100, 1)),
                  profit |-> profit,
                  roi |-> RatMul(PyDiv(profit, total * 110), Rat(100, 1)) ] ]

\* the outcome columns of a row: pending, won, lost (tracker.py:194 and
\* backfill.py:282 store profit 100 or -110 together with covered)
RowOutcomes ==
    { [covered |-> None, profit |-> None],
      [covered |-> Some(1), profit |-> Some(100)],
      [covered |-> Some(0), profit |-> Some(-110)] }

\* rows of bet_outcomes and bets as save_bet_outcome writes them
BetRows ==
    { [ covered |-> o.covered, profit |-> o.profit, pct_change |-> Some(p), mins_remaining |-> m,
        source |-> "live", strategy |-> "spread_fade", sport |-> "basketball_ncaab" ] :
      o \in RowOutcomes, p \in {Rat(1, 2), Rat(3, 2)}, m \in {None, Some(Mins(25))} }

\* rows of simulated_bets, which backfill writes with their outcome
SimulatedRows == { b \in BetRows : ~IsNone(b.covered) /\ IsNone(b.mins_remaining) }

\* the sequences over S of length at most n
SeqsUpTo(S, n) == UNION { [1..k -> S] : k \in 0..n }

StatsCalls ==
    [ fn : {"get_strategy_stats"}, rows : SeqsUpTo(BetRows, MaxStatBets),
      min_pct_change : {None, Some(Rat(1, 1))}, min_mins_remaining : {None, Some(Mins(20))} ]
    \cup [ fn : {"get_bet_stats"}, rows : SeqsUpTo(BetRows, MaxStatBets),
           source : {None, Some("backtest")}, strategy : {None}, min_pct_change : {None, Some(Rat(1, 1))} ]
    \cup [ fn : {"get_simulated_bet_stats"}, rows : SeqsUpTo(SimulatedRows, MaxStatBets),
           strategy : {None}, sport : {None, Some("basketball_nba")}, min_pct_change : {None, Some(Rat(1, 1))} ]
    \cup [ fn : {"analyze_by_threshold"}, rows : SeqsUpTo(BetRows, MaxStatBets) ]

StatsFns == {"get_strategy_stats", "get_bet_stats", "get_simulated_bet_stats", "analyze_by_threshold"}

ApplyStats ==
    /\ call.fn \in StatsFns
    /\ IsNone(ret)
    /\ ret' = Some(CASE call.fn = "get_strategy_stats" ->
                           get_strategy_stats(call.rows, call.min_pct_change, call.min_mins_remaining)
                     [] call.fn = "get_bet_stats" ->
                           get_bet_stats(call.rows, call.source, call.strategy, call.min_pct_change)
                     [] call.fn = "get_simulated_bet_stats" ->
                           get_simulated_bet_stats(call.rows, call.strategy, call.sport, call.min_pct_change)
                     [] call.fn = "analyze_by_threshold" ->
                           analyze_by_threshold(load_all_bets(call.rows)))
    /\ UNCHANGED <<call, liveVars, clock, dbVars, snapVars>>

InitStats == call \in StatsCalls /\ ret = None /\ DbInit /\ SnapInit /\ LiveInit

NextStats == ApplyStats

SpecStats == InitStats /\ [][NextStats]_vars

---------------------------------------------------------------------------
(* Claims about the aggregators, checked under SpecStats *)

DictAggregators == {"get_strategy_stats", "get_bet_stats", "get_simulated_bet_stats"}

Aggregated == Returned /\ call.fn \in DictAggregators

Analyzed == Returned /\ call.fn = "analyze_by_threshold"

\* pct_change of row b is at least the rational m
PctAtLeast(b, m) == Val(b.pct_change).num * m.den >= m.num * Val(b.pct_change).den

\* row b passes the filter arguments of the aggregator that was called
PassesFilter(b) ==
    CASE call.fn = "get_strategy_stats" ->
            /\ ~IsNone(call.min_pct_change) => PctAtLeast(b, Val(call.min_pct_change))
            /\ ~IsNone(call.min_mins_remaining) =>
                  /\ ~IsNone(b.mins_remaining)
                  /\ Val(b.mins_remaining) >= Val(call.min_mins_remaining)
      [] call.fn = "get_bet_stats" ->
            /\ ~IsNone(call.source) => b.source = Val(call.source)
            /\ ~IsNone(call.strategy) => b.strategy = Val(call.strategy)
            /\ ~IsNone(call.min_pct_change) => PctAtLeast(b, Val(call.min_pct_change))
      [] call.fn = "get_simulated_bet_stats" ->
            /\ ~IsNone(call.strategy) => b.strategy = Val(call.strategy)
            /\ ~IsNone(call.sport) => b.sport = Val(call.sport)
            /\ ~IsNone(call.min_pct_change) => PctAtLeast(b, Val(call.min_pct_change))

\* the positions of the resolved bets of the call that pass its filter
PassingBets ==
    { i \in DOMAIN call.rows : ~IsNone(call.rows[i].covered) /\ PassesFilter(call.rows[i]) }

\* the positions of the resolved bets whose change is at least t percent
PassingThreshold(t) ==
    { i \in DOMAIN call.rows : /\ ~IsNone(call.rows[i].covered)
                               /\ PctAtLeast(call.rows[i], Rat(t, 100)) }

\* the sum of the stored profits of the bets at the positions S
RECURSIVE ProfitOf(_)
ProfitOf(S) ==
    IF S = {} THEN 0
    ELSE LET i == CHOOSE j \in S : TRUE
         IN  Val(call.rows[i].profit) + ProfitOf(S \ {i})

WonIn(S) == Cardinality({ i \in S : call.rows[i].covered = Some(1) })
LostIn(S) == Cardinality({ i \in S : call.rows[i].covered = Some(0) })

\* C19: when no resolved bet passes the filters (no bets, only pending
\* bets, or all filtered out) the aggregator returns total_bets, wins,
\* losses, win_rate, total_profit and roi all 0 and divides by nothing.
C19_EmptyIsAllZero ==
    (Aggregated /\ PassingBets = {}) =>
        /\ Val(ret).total_bets = 0
        /\ Val(ret).wins = 0
        /\ Val(ret).losses = 0
        /\ Val(ret).win_rate.den # 0 /\ Val(ret).win_rate.num = 0
        /\ Val(ret).total_profit = 0
        /\ Val(ret).roi.den # 0 /\ Val(ret).roi.num = 0

\* C19 witness: get_strategy_stats over a pending bet and a resolved bet
\* that the minimum change filters out returns zeros.
C19_Witness ==
    /\ Aggregated
    /\ call.fn = "get_strategy_stats"
    /\ Len(call.rows) = 2
    /\ IsNone(call.rows[1].covered)
    /\ call.rows[2].covered = Some(1)
    /\ call.rows[2].pct_change = Some(Rat(1, 2))
    /\ call.min_pct_change = Some(Rat(1, 1))
    /\ Val(ret).total_bets = 0
    /\ Val(ret).roi = Rat(0, 1)

\* C20: for any collection of bets and any filter the aggregator counts
\* only the resolved bets that pass the filter, wins + losses = total_bets,
\* win_rate = wins / total_bets, total_profit is the sum of their profits
\* and roi = total_profit / (total_bets * 110); analyze_by_threshold
\* reports the same figures per threshold with win_rate and roi in percent.
C20_CountsResolvedFiltered ==
    /\ (Aggregated /\ PassingBets # {}) =>
          LET r == Val(ret)
              n == Cardinality(PassingBets)
          IN  /\ r.total_bets = n
              /\ r.wins = WonIn(PassingBets)
              /\ r.losses = LostIn(PassingBets)
              /\ r.wins + r.losses = r.total_bets
              /\ r.win_rate.den # 0
              /\ r.win_rate.num * n = r.wins * r.win_rate.den
              /\ r.total_profit = ProfitOf(PassingBets)
              /\ r.roi.den # 0
              /\ r.roi.num * (n * 110) = r.total_profit * r.roi.den
    /\ Analyzed =>
          \A t \in Thresholds :
             LET P == PassingThreshold(t)
                 n == Cardinality(P)
             IN  IF P = {} THEN t \notin DOMAIN Val(ret)
                 ELSE /\ t \in DOMAIN Val(ret)
                      /\ LET r == Val(ret)[t]
                         IN  /\ r.bets = n
                             /\ r.wins = WonIn(P)
                             /\ r.bets - r.wins = LostIn(P)
                             /\ r.win_rate.den # 0
                             /\ r.win_rate.num * n = 100 * r.wins * r.win_rate.den
                             /\ r.profit = ProfitOf(P)
                             /\ r.roi.den # 0
                             /\ r.roi.num * (n * 110) = 100 * r.profit * r.roi.den

\* C20 witness: get_strategy_stats with a minimum change of 1.0 over a won
\* and a lost bet at 1.5, a won bet at 0.5 and no pending bet counts two
\* bets, one win, a total profit of -10 and a roi of -10/220.
C20_Witness ==
    /\ Aggregated
    /\ call.fn = "get_strategy_stats"
    /\ call.min_pct_change = Some(Rat(1, 1))
    /\ Len(call.rows) = 3
    /\ call.rows[3].pct_change = Some(Rat(1, 2)) /\ call.rows[3].covered = Some(1)
    /\ Val(ret).total_bets = 2
    /\ Val(ret).wins = 1
    /\ Val(ret).losses = 1
    /\ Val(ret).total_profit = -10
    /\ Val(ret).roi = Rat(-10, 220)

---------------------------------------------------------------------------
(* The parameter sweeps of scripts/analyze.py: the best threshold of
   analyze_by_threshold and suggest_optimal_strategy, and the sorted
   best_combos of analyze_combined_filters.  A BetRecord carries
   spread_change_pct as a rational (percent), opening_spread and bet_spread
   in half points. *)

MaxPerKind == 3

\* x > y for rationals with positive denominators
RatGT(x, y) == x.num * y.den > y.num * x.den

\* wins, total, win_rate, profit and roi (percent) of a non-empty list of
\* matching BetRecords
SweepStats(matching) ==
    LET wins == Len(SelectRows(matching, {b \in RowsOf(matching) : b.covered}, 1))
        losses == Len(SelectRows(matching, {b \in RowsOf(matching) : ~b.covered}, 1))
        total == wins + losses
        profit == SumRecordProfit(matching)
    IN  [ wins |-> wins, total |-> total,
          win_rate |-> RatMul(PyDiv(wins, total), Rat(100, 1)),
          profit |-> profit,
          roi |-> RatMul(PyDiv(profit, total * 110), Rat(100, 1)) ]

\* analyze_by_threshold, lines 172-188: the loop over
\* sorted(results_by_threshold.items()) from threshold t on
RECURSIVE BestOfResults(_, _, _)
BestOfResults(results, t, best) ==
    IF t > 300 THEN best
    ELSE BestOfResults(results, t + 25,
             IF t \in DOMAIN results /\ results[t].bets >= 5 /\ RatGT(results[t].roi, best.best_roi)
             THEN [best_threshold |-> t, best_roi |-> results[t].roi]
             ELSE best)

\* analyze_by_threshold: the best threshold it prints, if it prints one
analyze_by_threshold_best(records) ==
    LET best == BestOfResults(analyze_by_threshold(records), 25, [best_threshold |-> 0, best_roi |-> Rat(-999, 1)])
    IN  IF best.best_threshold > 0 THEN Some(best) ELSE None

\* suggest_optimal_strategy: `for threshold in range(50, 275, 25)` from
\* threshold t on
RECURSIVE SuggestFrom(_, _, _)
SuggestFrom(records, t, best) ==
    IF t >= 275 THEN best
    ELSE LET matching == MatchingBets(records, t)
         IN  SuggestFrom(records, t + 25,
                 IF Len(matching) < 5 THEN best
                 ELSE IF SweepStats(matching).total < 5 THEN best
                 ELSE IF RatGT(SweepStats(matching).roi, best.best_roi)
                      THEN [best_threshold |-> t, best_roi |-> SweepStats(matching).roi]
                      ELSE best)

\* suggest_optimal_strategy: the threshold and ROI it prints as best
suggest_optimal_strategy(records) ==
    Some(SuggestFrom(records, 50, [best_threshold |-> 50, best_roi |-> Rat(-999, 1)]))

\* the lists analyze_combined_filters loops over; rank is the place of the
\* name in the order of python strings
ComboThresholds == <<50, 75, 100, 125, 150, 175, 200, 250>>

SpreadRanges ==
    << [name |-> "any", low |-> Pts(0), high |-> Pts(100), rank |-> 1],
       [name |-> "small", low |-> Pts(0), high |-> Pts(5), rank |-> 4],
       [name |-> "medium", low |-> Pts(5), high |-> Pts(10), rank |-> 3],
       [name |-> "large", low |-> Pts(10), high |-> Pts(100), rank |-> 2] >>

Directions ==
    << [name |-> "any", filter |-> None, rank |-> 1],
       [name |-> "favorite", filter |-> Some("fav"), rank |-> 2],
       [name |-> "underdog", filter |-> Some("dog"), rank |-> 3] >>

ComboSports ==
    << [name |-> "any", filter |-> None, rank |-> 1],
       [name |-> "ncaab", filter |-> Some("ncaab"), rank |-> 3],
       [name |-> "nba", filter |-> Some("nba"), rank |-> 2] >>

\* `sport_filter in b.sport` for the sport keys of the two feeds
SportFilterIn(sport_filter, sport) ==
    CASE sport_filter = "ncaab" -> sport = "basketball_ncaab"
      [] sport_filter = "nba" -> sport = "basketball_nba"

\* the four nested loops as one sequence of index tuples, in the order the
\* combinations are met
ComboOrder ==
    [ k \in 1..(8 * 4 * 3 * 3) |->
        << ((k - 1) \div 36) + 1, (((k - 1) \div 9) % 4) + 1, (((k - 1) \div 3) % 3) + 1, ((k - 1) % 3) + 1 >> ]

\* the bets of one combination: threshold, spread size, direction, sport
ComboMatching(records, c) ==
    LET threshold == ComboThresholds[c[1]]
        range == SpreadRanges[c[2]]
        dir == Directions[c[3]]
        sp == ComboSports[c[4]]
        m1 == MatchingBets(records, threshold)
        m2 == SelectRows(m1, {b \in RowsOf(m1) : range.low <= Abs(b.opening_spread) /\ Abs(b.opening_spread) < range.high}, 1)
        m3 == IF dir.filter = Some("fav") THEN SelectRows(m2, {b \in RowsOf(m2) : b.bet_spread < 0}, 1)
              ELSE IF dir.filter = Some("dog") THEN SelectRows(m2, {b \in RowsOf(m2) : b.bet_spread >= 0}, 1)
              ELSE m2
    IN  IF ~IsNone(sp.filter) THEN SelectRows(m3, {b \in RowsOf(m3) : SportFilterIn(Val(sp.filter), b.sport)}, 1)
        ELSE m3

\* the tuple appended to best_combos for combination c with statistics s
ComboTuple(c, s) ==
    [ roi |-> s.roi, total |-> s.total, win_rate |-> s.win_rate, profit |-> s.profit,
      threshold |-> ComboThresholds[c[1]],
      spread_name |-> SpreadRanges[c[2]].name, spread_rank |-> SpreadRanges[c[2]].rank,
      dir_name |-> Directions[c[3]].name, dir_rank |-> Directions[c[3]].rank,
      sport_name |-> ComboSports[c[4]].name, sport_rank |-> ComboSports[c[4]].rank ]

\* x > y for two tuples of best_combos, field by field as python compares
\* tuples
TupleGT(x, y) ==
    IF x.roi # y.roi /\ (RatGT(x.roi, y.roi) \/ RatGT(y.roi, x.roi)) THEN RatGT(x.roi, y.roi)
    ELSE IF x.total # y.total THEN x.total > y.total
    ELSE IF RatGT(x.win_rate, y.win_rate) \/ RatGT(y.win_rate, x.win_rate) THEN RatGT(x.win_rate, y.win_rate)
    ELSE IF x.profit # y.profit THEN x.profit > y.profit
    ELSE IF x.threshold # y.threshold THEN x.threshold > y.threshold
    ELSE IF x.spread_rank # y.spread_rank THEN x.spread_rank > y.spread_rank
    ELSE IF x.dir_rank # y.dir_rank THEN x.dir_rank > y.dir_rank
    ELSE x.sport_rank > y.sport_rank

\* the tuples the loops append to best_combos for the combinations of the
\* set cs: at least 3 matching bets and a positive roi
AppendedTuples(records, cs) ==
    { ComboTuple(c, SweepStats(ComboMatching(records, c))) :
        c \in { d \in cs : /\ Len(ComboMatching(records, d)) >= 3
                            /\ SweepStats(ComboMatching(records, d)).total >= 3
                            /\ RatGT(SweepStats(ComboMatching(records, d)).roi, Rat(0, 1)) } }

\* the first element of a non-empty set of tuples after sort(reverse=True)
GreatestTuple(S) == CHOOSE x \in S : \A y \in S : x = y \/ TupleGT(x, y)

\* analyze_combined_filters: best_combos[0] after the loops and
\* best_combos.sort(reverse=True), the first row of its table; None when no
\* combination was appended.  The greatest tuple is taken per threshold
\* first, then over the thresholds.
analyze_combined_filters(records) ==
    LET PerThreshold(ti) == AppendedTuples(records, { ComboOrder[k] : k \in ((ti - 1) * 36 + 1)..(ti * 36) })
        tops == { GreatestTuple(PerThreshold(ti)) : ti \in { i \in 1..8 : PerThreshold(i) # {} } }
    IN  IF tops = {} THEN None ELSE Some(GreatestTuple(tops))

\* the kinds of BetRecord of the sweeps: a large move on a small NCAAB line
\* and a smaller move on a medium NBA line, each won or lost
SweepKinds ==
    << [spread_change_pct |-> Rat(160, 1), opening_spread |-> -Pts(3), bet_spread |-> Pts(7), sport |-> "basketball_ncaab", covered |-> TRUE, profit |-> 100],
       [spread_change_pct |-> Rat(160, 1), opening_spread |-> -Pts(3), bet_spread |-> Pts(7), sport |-> "basketball_ncaab", covered |-> FALSE, profit |-> -110],
       [spread_change_pct |-> Rat(60, 1), opening_spread |-> Pts(7), bet_spread |-> Pts(11), sport |-> "basketball_nba", covered |-> TRUE, profit |-> 100],
       [spread_change_pct |-> Rat(60, 1), opening_spread |-> Pts(7), bet_spread |-> Pts(11), sport |-> "basketball_nba", covered |-> FALSE, profit |-> -110] >>

\* n copies of the record b
Copies(b, n) == [i \in 1..n |-> b]

\* the list of BetRecords with counts[i] records of kind i
SweepRecords(counts) ==
    Copies(SweepKinds[1], counts[1]) \o Copies(SweepKinds[2], counts[2])
        \o Copies(SweepKinds[3], counts[3]) \o Copies(SweepKinds[4], counts[4])

SweepFns == {"analyze_by_threshold_best", "suggest_optimal_strategy", "analyze_combined_filters"}

SweepCalls == [ fn : SweepFns, counts : [1..4 -> 0..MaxPerKind] ]

ApplySweep ==
    /\ call.fn \in SweepFns
    /\ IsNone(ret)
    /\ LET records == SweepRecords(call.counts)
       IN  ret' = Some(CASE call.fn = "analyze_by_threshold_best" -> analyze_by_threshold_best(records)
                         [] call.fn = "suggest_optimal_strategy" -> suggest_optimal_strategy(records)
                         [] call.fn = "analyze_combined_filters" -> analyze_combined_filters(records))
    /\ UNCHANGED <<call, liveVars, clock, dbVars, snapVars>>

InitSweep == call \in SweepCalls /\ ret = None /\ DbInit /\ SnapInit /\ LiveInit

NextSweep == ApplySweep

SpecSweep == InitSweep /\ [][NextSweep]_vars

---------------------------------------------------------------------------
(* Claims about the parameter sweeps, checked under SpecSweep *)

Swept == Returned /\ call.fn \in SweepFns

\* the thresholds a threshold sweep enumerates, in ascending order
SweptThresholds ==
    IF call.fn = "suggest_optimal_strategy" THEN {50 + 25 * k : k \in 0..8} ELSE Thresholds

\* roi (percent) of the bets of the call that meet threshold t
ThresholdRoi(t) == SweepStats(MatchingBets(SweepRecords(call.counts), t)).roi

\* the thresholds whose matching bet count meets the floor of 5
ThresholdsMeetingFloor ==
    { t \in SweptThresholds : Len(MatchingBets(SweepRecords(call.counts), t)) >= 5 }

\* the places in the enumeration of the combinations whose matching bet
\* count meets the floor of 3
CombosMeetingFloor ==
    { k \in DOMAIN ComboOrder : Len(ComboMatching(SweepRecords(call.counts), ComboOrder[k])) >= 3 }

ComboRoi(k) == SweepStats(ComboMatching(SweepRecords(call.counts), ComboOrder[k])).roi

\* C21: a sweep reports as best the combination with the highest ROI among
\* those whose matching bet count meets the floor, and among several with
\* the same highest ROI the one encountered first in enumeration order.
C21_BestIsFirstHighestRoi ==
    /\ (Swept /\ call.fn # "analyze_combined_filters" /\ ThresholdsMeetingFloor # {}) =>
          LET top == { t \in ThresholdsMeetingFloor :
                         \A u \in ThresholdsMeetingFloor : ~RatGT(ThresholdRoi(u), ThresholdRoi(t)) }
              first == CHOOSE t \in top : \A u \in top : t <= u
          IN  /\ ~IsNone(Val(ret))
              /\ Val(Val(ret)).best_threshold = first
              /\ ~RatGT(Val(Val(ret)).best_roi, ThresholdRoi(first))
              /\ ~RatGT(ThresholdRoi(first), Val(Val(ret)).best_roi)
    /\ (Swept /\ call.fn = "analyze_combined_filters" /\ ~IsNone(Val(ret))) =>
          LET top == { k \in CombosMeetingFloor :
                         \A j \in CombosMeetingFloor : ~RatGT(ComboRoi(j), ComboRoi(k)) }
              first == ComboOrder[CHOOSE k \in top : \A j \in top : k <= j]
          IN  /\ Val(Val(ret)).threshold = ComboThresholds[first[1]]
              /\ Val(Val(ret)).spread_name = SpreadRanges[first[2]].name
              /\ Val(Val(ret)).dir_name = Directions[first[3]].name
              /\ Val(Val(ret)).sport_name = ComboSports[first[4]].name

---------------------------------------------------------------------------
(* Claims about game results and their use, checked under Spec *)

\* C22: a game result is created once: after a result has been stored for
\* a game, no later run of fetch_and_record_game_results changes that
\* game's stored home or away score.
C22_ResultCreatedOnce ==
    [][\A g \in GameIds : ~IsNone(game_results[g]) => game_results'[g] = game_results[g]]_vars

\* C22 witness: the two games, whose scores come from two feeds and so from
\* two runs, both have a result; the run that stored the later one met the
\* earlier one stored.
C22_Witness ==
    /\ ~IsNone(game_results["g1"])
    /\ ~IsNone(game_results["g2"])
    /\ Val(game_results["g1"]) # Val(game_results["g2"])

---------------------------------------------------------------------------
(* The poll loop that runs on.  main of watch_live.py takes the next step
   of its loop whenever it has one, until the loop stops itself: the loop
   has no blocking call but the sleep.  The feeds are steady: a live game is
   quoted at the same spread in every poll (g1 at -2.0, g2 at -3.0, the
   home outcome first) and the historical API answers the first request
   for a game with an opening home point of -1.0. *)

SteadyQuote(g) ==
    [home_first |-> TRUE, point |-> Some(IF g = "g1" THEN -Pts(2) ELSE -Pts(3))]

SteadyFeeds ==
    /\ \A g \in GameIds :
          ~IsNone(games[g]) =>
              opening_lines[g] = Some([ spread |-> -Pts(1),
                                        team |-> ApiGame(g).home_team,
                                        home |-> ApiGame(g).home_team ])
    /\ \A k \in DOMAIN live_games :
          live_games[k] = LiveGame(live_games[k].id, SteadyQuote(live_games[k].id))

\* most polls of a run of the loop that runs on: two polls three hours
\* apart bring the run to the runtime limit
MaxFairPolls == 2

SteadyPoll == PollUpTo(MaxFairPolls) /\ SteadyFeeds'

SteadyMonitorGame == MonitorGame /\ SteadyFeeds'

NextLiveFair ==
    \/ SteadyPoll
    \/ SteadyMonitorGame
    \/ FetchResultsAfterPoll
    \/ ResolveAndSleep

SpecLiveFair == InitLive /\ [][NextLiveFair]_vars /\ WF_vars(NextLiveFair)

\* most polls of a long run on steady feeds
MaxSteadyPolls == 5

LongSteadyPoll == PollUpTo(MaxSteadyPolls) /\ SteadyFeeds'

\* a long run of the loop on steady feeds
NextLiveSteady ==
    \/ LongSteadyPoll
    \/ SteadyMonitorGame
    \/ FetchResultsAfterPoll
    \/ ResolveAndSleep

SpecLiveSteady == InitLive /\ [][NextLiveSteady]_vars

\* the bets of game g in bet_outcomes that have no outcome yet
PendingLiveBets(g) == { i \in LegacyBetsOf(g) : IsNone(bet_outcomes[i].covered) }

\* game g has its result and each of its bets its outcome
ResultAndBetsSettled(g) ==
    /\ ~IsNone(game_results[g])
    /\ PendingLiveBets(g) = {}

\* C23: for every bet the live monitor recorded, on an NBA or an NCAAB
\* game, once the scores API of the game's sport reports the game completed
\* and the loop runs on, the game's result is eventually recorded and the
\* bet eventually resolved.
C23_LiveBetsEventuallyResolved ==
    \A g \in GameIds :
        (LegacyBetsOf(g) # {} /\ g \in scores_final) ~> ResultAndBetsSettled(g)

\* C23, for the games of the sport the loop asks the scores for
C23_DefaultSportBetsResolved ==
    \A g \in SportGames("basketball_ncaab") :
        (LegacyBetsOf(g) # {} /\ g \in scores_final) ~> ResultAndBetsSettled(g)

\* C23: no result of an NBA game is ever stored by the loop
C23_NbaResultNeverStored ==
    \A g \in SportGames("basketball_nba") : IsNone(game_results[g])

\* C23 case: an NBA game with a recorded bet is over and the loop has come
\* round to its next poll
C23_NbaBetLeftPending ==
    \E g \in SportGames("basketball_nba") :
        /\ PendingLiveBets(g) # {}
        /\ g \in scores_final
        /\ pc = "poll"

\* C23 case: an NCAAB game with a recorded bet is over and settled
C23_NcaabBetSettled ==
    \E g \in SportGames("basketball_ncaab") :
        /\ LegacyBetsOf(g) # {}
        /\ g \in scores_final
        /\ ResultAndBetsSettled(g)

\* C24: resolve_pending_bets applies the home-side formula (margin +
\* bet_spread) exactly when bet_team is the game's home team and the
\* away-side formula (-margin + bet_spread) exactly when bet_team is the
\* away team, for every pair of team names, also when the two names start
\* with the same first word.
C24_SideByTeamName ==
    \A i \in BetIds : Resolved(i) =>
        LET b == bet_outcomes[i]
            home_side == Pts(BetMargin(i)) + b.bet_spread
            away_side == -Pts(BetMargin(i)) + b.bet_spread
        IN  /\ b.bet_team = BetGame(i).home_team
                => ((Val(b.covered) = 1) <=> (home_side > 0))
            /\ b.bet_team = BetGame(i).away_team
                => ((Val(b.covered) = 1) <=> (away_side > 0))

\* C24, for the games whose away team's first word does not begin the home
\* team's name
C24_SideByTeamNameDistinctWords ==
    \A i \in BetIds :
        (/\ Resolved(i)
         /\ ~StartsWith(Chars(BetGame(i).home_team),
                        FirstWord(Chars(BetGame(i).away_team)))) =>
            LET b == bet_outcomes[i]
                home_side == Pts(BetMargin(i)) + b.bet_spread
                away_side == -Pts(BetMargin(i)) + b.bet_spread
            IN  /\ b.bet_team = BetGame(i).home_team
                    => ((Val(b.covered) = 1) <=> (home_side > 0))
                /\ b.bet_team = BetGame(i).away_team
                    => ((Val(b.covered) = 1) <=> (away_side > 0))

\* the pending bets of bet_outcomes whose game has a stored result
Resolvable == { i \in BetIds : ~Resolved(i) /\ ~IsNone(game_results[bet_outcomes[i].game_id]) }

\* C25: one run of resolve_pending_bets resolves exactly the pending bets
\* whose game has a stored result, leaves every pending bet without a
\* result and every already-resolved bet unchanged, and returns the number
\* of bets it resolved.
C25_ResolvesExactlyResolvable ==
    [][ResolvePendingBets =>
          /\ DOMAIN bet_outcomes' = BetIds
          /\ \A i \in BetIds :
                IF i \in Resolvable
                THEN ~IsNone(bet_outcomes'[i].covered)
                ELSE bet_outcomes'[i] = bet_outcomes[i]
          /\ bets' = [ i \in DOMAIN bets |->
                         IF i \in Resolvable
                         THEN [bets[i] EXCEPT
                                 !.final_margin = bet_outcomes'[i].final_margin,
                                 !.covered = bet_outcomes'[i].covered,
                                 !.profit = bet_outcomes'[i].profit]
                         ELSE bets[i] ]
          /\ ret' = Some(Cardinality(Resolvable))]_vars

\* C25 witness: a run has resolved one bet and left another pending whose
\* game has no result
C25_Witness ==
    /\ ret = Some(1)
    /\ \E i, j \in BetIds :
          /\ Resolved(i)
          /\ ~Resolved(j)
          /\ IsNone(game_results[bet_outcomes[j].game_id])

---------------------------------------------------------------------------
(* scripts/watch_live.py: fetch_opening_line called again and again, in
   one process and across restarts: the specification SpecFetch.  A restart
   loses the module-level opening_lines and credit_stats and keeps the
   table opening_line_cache.  The historical API is asked for the odds of
   twelve hours before the call, so two calls may be answered differently. *)

\* most calls of fetch_opening_line in one process
MaxFetches == 3

\* the current spreads of a call: none, -1.0, and 11.0 (beyond
\* MAX_OPENING_SPREAD)
FetchSpreads == {None, Some(-Pts(1)), Some(Pts(11))}

\* the calls one process has made so far: each call counts itself once
FetchesSoFar ==
    credit_stats.api_calls + credit_stats.cache_hits + credit_stats.skipped_spreads

FetchOpeningLine(game_id, current_spread) ==
    /\ FetchesSoFar < MaxFetches
    /\ LET stores == OpeningStores(opening_lines, opening_line_cache, credit_stats)
       IN  \E historical \in
                 (IF AsksHistoricalApi(stores, game_id, current_spread)
                  THEN HistoricalShapes(game_id) ELSE {None}) :
             LET fetched == fetch_opening_line(stores, game_id,
                                ApiGame(game_id).sport, current_spread, historical)
             IN  /\ opening_lines' = fetched.stores.opening_lines
                 /\ opening_line_cache' = fetched.stores.opening_line_cache
                 /\ credit_stats' = fetched.stores.credit_stats
                 /\ ret' = Some([game_id |-> game_id, result |-> fetched.result])
                 /\ obtained' = IF IsNone(obtained[game_id])
                                THEN [obtained EXCEPT ![game_id] = fetched.result]
                                ELSE obtained
    /\ UNCHANGED <<call, clock, dbVars, snapVars, pc, live_games, espn_game_cache,
                   stopped_games, alerted_games, empty_poll_count, busy_polls,
                   polls, alert_polls, scores_final, simulated_bets, monitor_games, send_outcome, historical_odds_cache, storeVars>>

\* the process ends and main starts again on the same database
Restart ==
    /\ opening_lines' = [g \in GameIds |-> None]
    /\ credit_stats' = [api_calls |-> 0, cache_hits |-> 0, skipped_spreads |-> 0]
    /\ ret' = None
    /\ UNCHANGED <<call, clock, dbVars, snapVars, pc, live_games, espn_game_cache,
                   opening_line_cache, stopped_games, alerted_games,
                   empty_poll_count, busy_polls, polls, alert_polls,
                   scores_final, obtained, simulated_bets, monitor_games, send_outcome, historical_odds_cache, storeVars>>

InitFetch == InitLive

NextFetch ==
    \/ \E g \in GameIds : \E s \in FetchSpreads : FetchOpeningLine(g, s)
    \/ Restart

SpecFetch == InitFetch /\ [][NextFetch]_vars

\* the step is a call of fetch_opening_line for game g
FetchedNow(g) ==
    /\ credit_stats' # [api_calls |-> 0, cache_hits |-> 0, skipped_spreads |-> 0]
    /\ credit_stats' # credit_stats
    /\ ~IsNone(ret')
    /\ Val(ret').game_id = g

\* the line of a row of opening_line_cache
CachedLine(row) ==
    [spread |-> row.spread_value, team |-> row.spread_team, home |-> row.home_team]

\* C26: once fetch_opening_line has obtained an opening line for a game
\* (from memory, the database cache or the historical API), every later
\* call for that game returns the same (spread, team, home) and makes no
\* historical API call; memory is looked up first, then the database, then
\* the API.
C26_ObtainedLineIsKept ==
    [][\A g \in GameIds : FetchedNow(g) =>
          /\ ~IsNone(obtained[g]) =>
                /\ Val(ret').result = obtained[g]
                /\ credit_stats'.api_calls = credit_stats.api_calls
          /\ ~IsNone(opening_lines[g]) =>
                /\ Val(ret').result = opening_lines[g]
                /\ credit_stats'.cache_hits = credit_stats.cache_hits + 1
          /\ (IsNone(opening_lines[g]) /\ ~IsNone(opening_line_cache[g])) =>
                /\ Val(ret').result = Some(CachedLine(Val(opening_line_cache[g])))
                /\ credit_stats'.cache_hits = credit_stats.cache_hits + 1
          /\ (IsNone(opening_lines[g]) /\ IsNone(opening_line_cache[g])) =>
                \/ credit_stats'.api_calls = credit_stats.api_calls + 1
                \/ credit_stats'.skipped_spreads = credit_stats.skipped_spreads + 1
      ]_vars

\* C26 witness: a restarted process has made two calls, both answered from
\* the caches and none by the API, the last with the line obtained before
\* the restart
C26_Witness ==
    \E g \in GameIds :
        /\ credit_stats = [api_calls |-> 0, cache_hits |-> 2, skipped_spreads |-> 0]
        /\ ~IsNone(ret) /\ Val(ret).game_id = g
        /\ ~IsNone(obtained[g]) /\ Val(ret).result = obtained[g]

---------------------------------------------------------------------------
(* Further claims about the poll loop, checked under SpecLiveSteady and
   SpecLive *)

\* C27: the loop of the live monitor stops once MAX_EMPTY_POLLS (3) polls
\* in a row find no live game; a poll that finds a live game sets the count
\* of empty polls back to 0, so empty polls that are not in a row never
\* stop the loop.  (The only other stop is the runtime limit.)
C27_StopsAfterConsecutiveEmptyPolls ==
    [][/\ polls' = polls + 1 =>
            IF live_games' = <<>>
            THEN /\ empty_poll_count' = empty_poll_count + 1
                 /\ pc' = "stopped" <=> empty_poll_count' >= 3
            ELSE /\ empty_poll_count' = 0
                 /\ pc' # "stopped"
       /\ polls' = polls => empty_poll_count' = empty_poll_count
       /\ (pc # "stopped" /\ pc' = "stopped") =>
            \/ polls' = polls + 1 /\ empty_poll_count' >= 3
            \/ clock - start_time >= MAX_RUNTIME_HOURS
      ]_vars

\* C27 witness: the loop has stopped on its third empty poll in a row,
\* after an earlier empty poll that a poll with a live game had set back
C27_Witness ==
    /\ pc = "stopped"
    /\ empty_poll_count = 3
    /\ polls - busy_polls >= 4
    /\ busy_polls >= 1

\* the step records a bet: a row is added to bet_outcomes
BetRecordedNow == Len(bet_outcomes') = Len(bet_outcomes) + 1

\* the row the step adds
NewBet == bet_outcomes'[Len(bet_outcomes')]

\* the opportunity score of the poll that recorded bet row b of the live
\* game `game`, from the pct_change, the minutes left and the opening
\* spread the row keeps and the scores and the sport of the game
ScoreOfBet(b, game) ==
    LET sc == LiveScores(game.scores, game.home_team,
                         [home_score |-> 0, away_score |-> 0])
    IN  calculate_opportunity_score(b.pct_change, b.mins_remaining,
            b.opening_spread, sc.home_score - sc.away_score, game.sport)

\* C28: the live monitor records a bet for a game only in a poll where an
\* opening line is known and not zero, |opening spread| is within
\* [MIN_OPENING_SPREAD, MAX_OPENING_SPREAD] = [0, 10] and the opportunity
\* score is at least MIN_ALERT_SCORE (70), so every recorded bet has grade
\* A or B.
C28_BetOnlyOnQualifiedPoll ==
    [][BetRecordedNow =>
          LET game == Head(live_games)
              opening == opening_lines'[game.id]
              score == ScoreOfBet(NewBet, game)
          IN  /\ NewBet.game_id = game.id
              /\ ~IsNone(opening)
              /\ Val(opening).spread # 0
              /\ Abs(Val(opening).spread) >= 0
              /\ Abs(Val(opening).spread) <= Pts(10)
              /\ Abs(NewBet.opening_spread) = Abs(Val(opening).spread)
              /\ score.total_score >= 70
              /\ score.grade \in {"A", "B"}
      ]_vars

\* C28 witness: a bet is recorded for g2, and g1, which opened at -10.5,
\* has been polled at -21.0 (a change of 100% with 20 minutes left) and has
\* no bet
C28_Witness ==
    /\ LegacyBetsOf("g2") # {}
    /\ LegacyBetsOf("g1") = {}
    /\ ~IsNone(opening_lines["g1"])
    /\ Val(opening_lines["g1"]).spread = -Pts(10) - 1
    /\ \E k \in DOMAIN line_snapshots :
          /\ line_snapshots[k].game_id = "g1"
          /\ line_snapshots[k].is_opening = 0
          /\ line_snapshots[k].spread_value = -Pts(21)

\* the poll of the step scores at or above the threshold for a game whose
\* opening line is in range (the ALERT branch of the loop)
AlertNow == alert_polls' # alert_polls

\* the live line the step saves: the last row of line_snapshots
PolledLine == line_snapshots'[Len(line_snapshots')]

\* C29: an opportunity score can reach the alert threshold of 70 only when
\* pct_change >= 0.75, so every alert and every recorded live bet has
\* pct_change >= 0.75: a poll that alerts has |current| - |opening| at least
\* three quarters of |opening|, and every bet row of both tables keeps a
\* pct_change of at least 3/4.
C29_AlertNeedsLineMove ==
    [][/\ AlertNow =>
             LET game == Head(live_games)
                 open == Abs(Val(opening_lines'[game.id]).spread)
             IN  /\ PolledLine.game_id = game.id
                 /\ PolledLine.is_opening = 0
                 /\ 4 * (Abs(PolledLine.spread_value) - open) >= 3 * open
       /\ BetRecordedNow => AlertNow
       /\ \A i \in DOMAIN bet_outcomes' :
             RatGE(bet_outcomes'[i].pct_change, 3, 4)
       /\ \A i \in DOMAIN bets' : RatGE(bets'[i].pct_change, 3, 4)
      ]_vars

\* C29 witness: g2 has a bet, and g1, which opened at -1.0, has been polled
\* at -1.0 with 20 minutes left (no line movement and every other component
\* at its top value: 65 points), has never alerted and has no bet
C29_Witness ==
    /\ LegacyBetsOf("g2") # {}
    /\ LegacyBetsOf("g1") = {}
    /\ alert_polls["g1"] = 0
    /\ ~IsNone(opening_lines["g1"])
    /\ Val(opening_lines["g1"]).spread = -Pts(1)
    /\ \E k \in DOMAIN line_snapshots :
          /\ line_snapshots[k].game_id = "g1"
          /\ line_snapshots[k].is_opening = 0
          /\ line_snapshots[k].spread_value = -Pts(1)
          /\ line_snapshots[k].mins_remaining = Some(Mins(20))
          /\ line_snapshots[k].home_score - line_snapshots[k].away_score = 1

\* the scorer alone, under SpecScore: a total of 70 or more needs
\* pct_change >= 0.75, and a line-movement component of 0 leaves a total of
\* at most 65
C29_ScoreNeedsLineMove ==
    Scored =>
        LET r == Val(ret) IN
        /\ r.total_score >= 70 => RatGE(call.pct_change, 3, 4)
        /\ r.breakdown.line_move = 0 => r.total_score <= 65
        /\ ~RatGE(call.pct_change, 3, 4) => r.breakdown.line_move = 0

\* a call with no line movement that scores exactly 65
C29_ScoreOf65 ==
    /\ Scored
    /\ Val(ret).breakdown.line_move = 0
    /\ Val(ret).total_score = 65

----------------------------------------------------------------------------
(* scripts/backfill.py: simulate_bets_for_game, and the recording of bets by
   the monitor and by the backfill on one database (SpecRecord) *)

\* THRESHOLDS with a threshold of 0% before the others
THRESHOLDS_FromZero ==
    <<Rat(0, 1), Rat(1, 2), Rat(3, 4), Rat(1, 1), Rat(5, 4), Rat(3, 2), Rat(2, 1)>>

\* THRESHOLDS = [0.5, 0.75, 1.0, 1.25, 1.5, 2.0]
THRESHOLDS ==
    <<Rat(1, 2), Rat(3, 4), Rat(1, 1), Rat(5, 4), Rat(3, 2), Rat(2, 1)>>

SNAPSHOT_MIDGAME == "midgame"

\* f"spread_change_{int(threshold * 100)}pct"
StrategyName(threshold) ==
    LET pct == (100 * threshold.num) \div threshold.den
    IN  CASE pct = 0 -> "spread_change_0pct"
          [] pct = 50 -> "spread_change_50pct"
          [] pct = 75 -> "spread_change_75pct"
          [] pct = 100 -> "spread_change_100pct"
          [] pct = 125 -> "spread_change_125pct"
          [] pct = 150 -> "spread_change_150pct"
          [] pct = 200 -> "spread_change_200pct"

\* INSERT INTO simulated_bets, then INSERT INTO bets with source
\* 'backtest'; t holds the two tables, the id returned is the new row of
\* simulated_bets
save_simulated_bet(t, game_id, sport, strategy, bet_team, bet_spread, opening_spread, pct_change, snapshot_type) ==
    [ legacy  |-> Append(t.legacy,
                    [ game_id |-> game_id, sport |-> sport,
                      strategy |-> strategy, bet_team |-> bet_team,
                      bet_spread |-> bet_spread,
                      opening_spread |-> opening_spread,
                      pct_change |-> pct_change,
                      snapshot_type |-> snapshot_type,
                      final_margin |-> None, covered |-> None,
                      profit |-> None ]),
      unified |-> Append(t.unified,
                    [ game_id |-> game_id, source |-> "backtest",
                      strategy |-> strategy, bet_team |-> bet_team,
                      bet_spread |-> bet_spread,
                      opening_spread |-> opening_spread,
                      pct_change |-> pct_change,
                      snapshot_type |-> snapshot_type,
                      mins_remaining |-> None, alert_id |-> None,
                      final_margin |-> None, covered |-> None,
                      profit |-> None ]) ]

\* UPDATE simulated_bets ... WHERE id = bet_id, then UPDATE bets ... WHERE
\* game_id, strategy and bet_spread are those of that row AND source =
\* 'backtest' AND covered IS NULL
update_simulated_bet(t, bet_id, final_margin, covered, profit) ==
    LET cov == IF covered THEN 1 ELSE 0
        hit == bet_id \in DOMAIN t.legacy
        row == t.legacy[bet_id]
    IN  [ legacy  |-> IF hit
                      THEN [t.legacy EXCEPT ![bet_id].final_margin = Some(final_margin),
                                            ![bet_id].covered = Some(cov),
                                            ![bet_id].profit = Some(profit)]
                      ELSE t.legacy,
          unified |-> IF hit
                      THEN [ i \in DOMAIN t.unified |->
                               IF /\ t.unified[i].game_id = row.game_id
                                  /\ t.unified[i].strategy = row.strategy
                                  /\ t.unified[i].bet_spread = row.bet_spread
                                  /\ t.unified[i].source = "backtest"
                                  /\ IsNone(t.unified[i].covered)
                               THEN [t.unified[i] EXCEPT
                                        !.final_margin = Some(final_margin),
                                        !.covered = Some(cov),
                                        !.profit = Some(profit)]
                               ELSE t.unified[i] ]
                      ELSE t.unified ]

\* SimulatedSide with the branch of a narrowed spread taken for every pair
SimulatedSideNarrowed(home_team, away_team, open_home, mid_home) ==
    IF mid_home < 0
    THEN [bet_team |-> home_team, bet_spread |-> mid_home]
    ELSE [bet_team |-> away_team, bet_spread |-> -mid_home]

\* the team and the spread simulate_bets_for_game bets at the midgame line
SimulatedSide(home_team, away_team, open_home, mid_home) ==
    IF Abs(mid_home) > Abs(open_home)
    THEN IF mid_home > 0
         THEN [bet_team |-> home_team, bet_spread |-> mid_home]
         ELSE [bet_team |-> away_team, bet_spread |-> -mid_home]
    ELSE IF mid_home < 0
         THEN [bet_team |-> home_team, bet_spread |-> mid_home]
         ELSE [bet_team |-> away_team, bet_spread |-> -mid_home]

\* the body of `for threshold in THRESHOLDS`, from thresholds[1] on
RECURSIVE SimulateEach(_, _, _, _, _, _, _, _, _)
SimulateEach(thresholds, t, game_id, sport, home_team, away_team, open_home, mid_home, final_margin) ==
    IF thresholds = <<>> THEN t
    ELSE LET threshold == Head(thresholds)
             pct_change == Val(calculate_spread_change(Some(open_home), Some(mid_home)))
             side == SimulatedSide(home_team, away_team, open_home, mid_home)
             adjusted == IF side.bet_team = home_team
                         THEN Pts(final_margin) + mid_home
                         ELSE -Pts(final_margin) + Abs(mid_home)
             covered == adjusted > 0
             profit == IF covered THEN 100 ELSE -110
             saved == save_simulated_bet(t, game_id, sport, StrategyName(threshold),
                          side.bet_team, side.bet_spread, open_home, pct_change,
                          SNAPSHOT_MIDGAME)
             updated == update_simulated_bet(saved, Len(saved.legacy),
                            final_margin, covered, profit)
         IN  SimulateEach(Tail(thresholds),
                 IF RatGE(pct_change, threshold.num, threshold.den)
                 THEN updated ELSE t,
                 game_id, sport, home_team, away_team, open_home, mid_home,
                 final_margin)

\* simulate_bets_for_game: the two tables after the call; opening and
\* midgame are the spread_home of odds_data["opening"] and
\* odds_data["midgame"] (None: absent)
simulate_bets_for_game(t, game_id, sport, home_team, away_team, opening, midgame, final_margin) ==
    IF IsNone(opening) \/ IsNone(midgame) THEN t
    ELSE IF IsNone(calculate_spread_change(opening, midgame)) THEN t
    ELSE SimulateEach(THRESHOLDS, t, game_id, sport, home_team, away_team,
                      Val(opening), Val(midgame), final_margin)

\* games the backfill simulates in one behaviour
MaxBackfills == 1

\* spread_home of the opening snapshot: absent, 0 (pick'em), -1.0
BackfillOpenings == {None, Some(0), Some(-Pts(1))}

\* spread_home of the midgame snapshot: absent, 0, -1.0 (no change), -1.5
\* (a change of exactly 50%) and +2.0 (a change of 100%, the line has
\* changed sides)
BackfillMidgames == {None, Some(0), Some(-Pts(1)), Some(-3), Some(Pts(2))}

\* final margins (home - away) of a backfilled game
BackfillMargins == {-2, 2}

\* the games with a row in simulated_bets
BackfilledGames == { simulated_bets[i].game_id : i \in DOMAIN simulated_bets }

\* the backfill simulates the bets of one completed game
SimulateBetsForGame(g, opening, midgame, final_margin) ==
    /\ Cardinality(BackfilledGames) < MaxBackfills
    /\ g \notin BackfilledGames
    /\ LET a == ApiGame(g)
           t == simulate_bets_for_game(
                    [legacy |-> simulated_bets, unified |-> bets], g, a.sport,
                    a.home_team, a.away_team, opening, midgame, final_margin)
       IN  /\ simulated_bets' = t.legacy
           /\ bets' = t.unified
    /\ UNCHANGED <<pureVars, clock, snapVars, games, game_results, alerts,
                   bet_outcomes, outcome_writes, pc, live_games,
                   espn_game_cache, opening_lines, opening_line_cache,
                   stopped_games, alerted_games, empty_poll_count, credit_stats,
                   busy_polls, polls, alert_polls, scores_final, obtained,
                   monitor_games, send_outcome, historical_odds_cache, storeVars>>

\* polls of a behaviour of SpecRecord
MaxRecordPolls == 1

\* what a poll of SpecRecord finds: g1 quoted with the home team at -2.0 or
\* at +2.0 or not live, g2 quoted with the home team at -3.0 and the away
\* team first or not live
RecordShapes ==
    { f \in [GameIds -> {None} \cup
                        { Some([home_first |-> o, point |-> Some(p)]) :
                            o \in BOOLEAN, p \in {-Pts(3), -Pts(2), Pts(2)} }] :
        /\ f["g1"] \in {None, Some([home_first |-> TRUE, point |-> Some(-Pts(2))]),
                        Some([home_first |-> TRUE, point |-> Some(Pts(2))])}
        /\ f["g2"] \in {None, Some([home_first |-> FALSE, point |-> Some(-Pts(3))])} }

RecordPoll == PollFrom(MaxRecordPolls, RecordShapes)

NextRecord ==
    \/ RecordPoll
    \/ MonitorGame
    \/ FetchResultsAfterPoll
    \/ ResolveAndSleep
    \/ \E g \in GameIds : \E opening \in BackfillOpenings :
          \E midgame \in BackfillMidgames : \E final_margin \in BackfillMargins :
             SimulateBetsForGame(g, opening, midgame, final_margin)

SpecRecord == InitLive /\ [][NextRecord]_vars

\* the point the current line of the live game `game` gives team
PointAtCurrentLine(game, team) ==
    { game.outcomes[k].point :
        k \in { j \in DOMAIN game.outcomes : game.outcomes[j].name = team } }

\* C30: every bet that is recorded, by the live monitor or by the backfill
\* simulation, has bet_spread > 0: the row the monitor adds is on the team
\* that receives points at the current line, for that many points, and every
\* row of bet_outcomes, of simulated_bets and of bets has a positive spread.
C30_RecordedBetSpreadPositive ==
    [][/\ BetRecordedNow =>
             /\ NewBet.bet_spread > 0
             /\ PointAtCurrentLine(Head(live_games), NewBet.bet_team)
                   = {Some(NewBet.bet_spread)}
       /\ \A i \in DOMAIN bet_outcomes' : bet_outcomes'[i].bet_spread > 0
       /\ \A i \in DOMAIN simulated_bets' : simulated_bets'[i].bet_spread > 0
       /\ \A i \in DOMAIN bets' : bets'[i].bet_spread > 0
      ]_vars

\* C30 witness: the monitor has recorded a bet on a home team and a bet on
\* an away team, and the backfill a bet on the home team and one on the away
\* team of a game, at two thresholds
C30_Witness ==
    /\ \E i, j \in DOMAIN bet_outcomes :
          /\ bet_outcomes[i].bet_team = ApiGame(bet_outcomes[i].game_id).home_team
          /\ bet_outcomes[j].bet_team = ApiGame(bet_outcomes[j].game_id).away_team
    /\ Len(simulated_bets) >= 2
    /\ \E i \in DOMAIN bets : bets[i].source = "backtest"

----------------------------------------------------------------------------
(* The backfill's choice of side against the monitor's, checked under
   SpecFade *)

\* simulate_bets_for_game creates a bet for the pair of home spreads: the
\* change is defined and meets a threshold of THRESHOLDS
BetCreatedFor(open_home, mid_home) ==
    LET pct_change == calculate_spread_change(Some(open_home), Some(mid_home))
    IN  /\ ~IsNone(pct_change)
        /\ \E k \in DOMAIN THRESHOLDS :
              RatGE(Val(pct_change), THRESHOLDS[k].num, THRESHOLDS[k].den)

\* C31: for every pair of home-signed spreads (open_home, current_home) for
\* which a bet is created (pct_change at or above a threshold), the backfill
\* simulation's choice of (bet_team, bet_spread) equals the live monitor's
\* fade-direction choice of (fade_team, fade_spread).
C31_BackfillSideIsFadeSide ==
    Faded =>
        LET r == Val(ret)
            side == SimulatedSide(call.home, call.away, r.open_home, r.current_home)
        IN  BetCreatedFor(r.open_home, r.current_home) =>
               /\ side.bet_team = r.fade_team
               /\ side.bet_spread = r.fade_spread

\* C31 witness: the opening line is quoted for the away team at +1.0 (home
\* -1.0) and the current line for the home team at +1.5: a change of
\* exactly 50% across pick'em, both choose the home team at +1.5
C31_Witness ==
    /\ Faded
    /\ call.open_team = call.away /\ call.open_spread = Pts(1)
    /\ call.spread_team = call.home /\ call.current_spread = 3
    /\ BetCreatedFor(Val(ret).open_home, Val(ret).current_home)
    /\ Val(ret).fade_team = call.home
    /\ Val(ret).fade_spread = 3
    /\ SimulatedSide(call.home, call.away, -Pts(1), 3)
          = [bet_team |-> call.home, bet_spread |-> 3]

\* without the precondition the two choices differ: a pair of spreads,
\* below every threshold, on which they disagree
C31_SidesDifferBelowThresholds ==
    /\ Faded
    /\ ~BetCreatedFor(Val(ret).open_home, Val(ret).current_home)
    /\ Val(ret).open_home # 0
    /\ SimulatedSide(call.home, call.away, Val(ret).open_home, Val(ret).current_home).bet_team
          # Val(ret).fade_team

----------------------------------------------------------------------------
(* db/storage.py: the four methods that write a bet to a legacy table and to
   the unified table bets, called in any order (SpecTables) *)

\* save_bet_outcome: INSERT INTO bet_outcomes, then INSERT INTO bets with
\* source 'live'; the id returned is the new row of bet_outcomes
save_bet_outcome(t, game_id, bet_type, bet_team, bet_spread, opening_spread, pct_change, mins_remaining, alert_id) ==
    BetTables(Append(t.legacy,
                  LegacyBetRow(game_id, bet_type, bet_team, bet_spread,
                      opening_spread, pct_change, mins_remaining, alert_id)),
              Append(t.unified,
                  UnifiedBetRow(game_id, bet_type, bet_team, bet_spread,
                      opening_spread, pct_change, mins_remaining, alert_id)),
              Append(t.writes, 0))

\* most rows of bet_outcomes and most rows of simulated_bets
MaxTableBets == 2

\* alert_id of a call of save_bet_outcome: left at its default (None) or
\* the id of an alert
AlertIdArgs == {None, Some(1), Some(2)}

SaveBetOutcome(g, alert_id) ==
    /\ Len(bet_outcomes) < MaxTableBets
    /\ LET t == save_bet_outcome(BetTables(bet_outcomes, bets, outcome_writes),
                    g, "spread", ApiGame(g).away_team, Pts(2), -Pts(1),
                    Rat(1, 1), Some(Mins(20)), alert_id)
       IN  /\ bet_outcomes' = t.legacy
           /\ bets' = t.unified
           /\ outcome_writes' = t.writes
    /\ UNCHANGED <<pureVars, liveVars, snapVars, clock, games, game_results, alerts>>

UpdateBetOutcome(bet_id, final_margin, covered) ==
    /\ bet_id \in DOMAIN bet_outcomes
    /\ LET t == update_bet_outcome(BetTables(bet_outcomes, bets, outcome_writes),
                    bet_id, final_margin, covered,
                    IF covered THEN 100 ELSE -110)
       IN  /\ bet_outcomes' = t.legacy
           /\ bets' = t.unified
           /\ outcome_writes' = outcome_writes
    /\ UNCHANGED <<pureVars, liveVars, snapVars, clock, games, game_results, alerts>>

\* strategies of the calls of save_simulated_bet
TableStrategies == {StrategyName(THRESHOLDS[1]), StrategyName(THRESHOLDS[2])}

SaveSimulatedBet(g, strategy) ==
    /\ Len(simulated_bets) < MaxTableBets
    /\ LET t == save_simulated_bet([legacy |-> simulated_bets, unified |-> bets],
                    g, ApiGame(g).sport, strategy, ApiGame(g).away_team,
                    Pts(2), -Pts(1), Rat(1, 1), SNAPSHOT_MIDGAME)
       IN  /\ simulated_bets' = t.legacy
           /\ bets' = t.unified
    /\ UNCHANGED <<pureVars, snapVars, clock, games, game_results, alerts,
                   bet_outcomes, outcome_writes, pc, live_games,
                   espn_game_cache, opening_lines, opening_line_cache,
                   stopped_games, alerted_games, empty_poll_count, credit_stats,
                   busy_polls, polls, alert_polls, scores_final, obtained,
                   monitor_games, send_outcome, historical_odds_cache, storeVars>>

UpdateSimulatedBet(bet_id, final_margin, covered) ==
    /\ bet_id \in DOMAIN simulated_bets
    /\ LET t == update_simulated_bet([legacy |-> simulated_bets, unified |-> bets],
                    bet_id, final_margin, covered,
                    IF covered THEN 100 ELSE -110)
       IN  /\ simulated_bets' = t.legacy
           /\ bets' = t.unified
    /\ UNCHANGED <<pureVars, snapVars, clock, games, game_results, alerts,
                   bet_outcomes, outcome_writes, pc, live_games,
                   espn_game_cache, opening_lines, opening_line_cache,
                   stopped_games, alerted_games, empty_poll_count, credit_stats,
                   busy_polls, polls, alert_polls, scores_final, obtained,
                   monitor_games, send_outcome, historical_odds_cache, storeVars>>

\* final margins (home - away) given to the two update methods
TableMargins == {3}

\* games of the bets of SpecTables
TableGames == {"g1"}

NextTables ==
    \/ \E g \in TableGames : \E alert_id \in AlertIdArgs : SaveBetOutcome(g, alert_id)
    \/ \E bet_id \in 1..MaxTableBets : \E m \in TableMargins :
          \E covered \in BOOLEAN : UpdateBetOutcome(bet_id, m, covered)
    \/ \E g \in TableGames : \E strategy \in TableStrategies :
          SaveSimulatedBet(g, strategy)
    \/ \E bet_id \in 1..MaxTableBets : \E m \in TableMargins :
          \E covered \in BOOLEAN : UpdateSimulatedBet(bet_id, m, covered)

SpecTables == Init /\ [][NextTables]_vars

\* the rows of bets written with the given source, in the order written
UnifiedRowsOf(source) ==
    LET FromSource(row) == row.source = source IN SelectSeq(bets, FromSource)

\* the outcome columns of a row
OutcomeOf(row) == <<row.final_margin, row.covered, row.profit>>

\* every row of the legacy table has its row in bets, with the same outcome
Mirrors(legacy, source) ==
    /\ Len(UnifiedRowsOf(source)) = Len(legacy)
    /\ \A i \in DOMAIN legacy :
          OutcomeOf(UnifiedRowsOf(source)[i]) = OutcomeOf(legacy[i])

\* C32: after any sequence of save_bet_outcome / update_bet_outcome and
\* save_simulated_bet / update_simulated_bet calls, each bet's row in the
\* unified bets table has the same final_margin, covered and profit (set or
\* unset) as its row in the legacy bet_outcomes or simulated_bets table.
C32_UnifiedMirrorsLegacy ==
    /\ Mirrors(bet_outcomes, "live")
    /\ Mirrors(simulated_bets, "backtest")

\* the part of C32 about bet_outcomes
C32_LiveMirrors == Mirrors(bet_outcomes, "live")

\* the part of C32 about simulated_bets
C32_BacktestMirrors == Mirrors(simulated_bets, "backtest")

\* a bet saved without an alert_id and then updated: resolved in
\* bet_outcomes, still pending in bets
C32_UpdatedOnlyInLegacy ==
    /\ Len(bet_outcomes) = 1
    /\ IsNone(bet_outcomes[1].alert_id)
    /\ ~IsNone(bet_outcomes[1].covered)
    /\ IsNone(UnifiedRowsOf("live")[1].covered)

----------------------------------------------------------------------------
(* The pre-filter of the poll on the time remaining, checked under
   SpecLiveFair and SpecLive *)

\* the end of a loop round in which the sleep lasts: the clock has moved on
\* when the monitor wakes (time.sleep(POLL_INTERVAL))
SleepOn == ResolveAndSleep /\ clock' = clock + ClockStep

NextLiveAwake ==
    \/ SteadyPoll
    \/ SteadyMonitorGame
    \/ FetchResultsAfterPoll
    \/ SleepOn

\* the monitor on steady feeds polls on, and time passes at every sleep,
\* until the loop ends itself at the runtime limit
SpecLiveAwake == InitLive /\ [][NextLiveAwake]_vars /\ WF_vars(NextLiveAwake)

\* game g is live at the poll: it is among the live games to monitor
LiveAtPoll(g) == \E k \in DOMAIN live_games : live_games[k].id = g

\* the estimate the pre-filter makes for game g: from its start time alone
PrefilterEstimate(g) ==
    estimate_minutes_remaining(Some(ApiGame(g).commence_time), 0, 0)

\* C33: a live game whose estimated minutes remaining in the poll
\* pre-filter falls below MIN_TIME_REMAINING (10) is added to stopped_games
\* and skipped in every later poll, and such a state is reached: a game that
\* started long enough ago (here three hours or more before the poll) and
\* is found live is, while the monitor polls on, eventually in stopped_games,
\* and a game in stopped_games is never among the live games again.
C33_LongRunningGameStopped ==
    /\ \A g \in GameIds : LiveAtPoll(g) ~> (g \in stopped_games)
    /\ [][\A g \in stopped_games : ~LiveAtPoll(g)']_vars

\* the pre-filter never stops a game: stopped_games stays empty, as the
\* estimate made from the start time alone is never below 35 minutes
C33_NoGameEverStopped ==
    /\ stopped_games = {}
    /\ \A g \in GameIds : Val(PrefilterEstimate(g)) >= Mins(35)

\* the monitor's own estimate, made with the scores, does fall below 10
\* minutes for the same start time
C33_EstimateWithScoresBelowTen ==
    /\ pc = "stopped"
    /\ \A g \in GameIds :
          Val(estimate_minutes_remaining(Some(ApiGame(g).commence_time), 60, 50))
             < Mins(10)

----------------------------------------------------------------------------
(* The sport the monitor stores for a game, checked under SpecLive *)

\* the sport feed of SPORTS in which game g is polled
FeedOf(g) ==
    SPORTS[CHOOSE i \in DOMAIN SPORTS :
              \E k \in DOMAIN OddsFeed(SPORTS[i]) : OddsFeed(SPORTS[i])[k] = g]

\* the sport load_all_bets gives a bet of bet_outcomes: g.sport of the row
\* of games joined on the bet's game_id
SportLoadedFor(bet) == Val(games[bet.game_id]).sport

\* C34: the sport stored for a game by the live monitor equals the sport
\* feed (basketball_nba or basketball_ncaab) in which the game was polled,
\* so bets loaded for analysis are attributed to the sport they were placed
\* on.
C34_StoredSportIsFeedSport ==
    /\ \A g \in GameIds :
          ~IsNone(games[g]) => Val(games[g]).sport = FeedOf(g)
    /\ \A i \in DOMAIN bet_outcomes :
          SportLoadedFor(bet_outcomes[i]) = FeedOf(bet_outcomes[i].game_id)

\* the same for the games of the feed that is the default sport of Game
C34_DefaultSportGamesStored ==
    \A g \in GameIds :
        (~IsNone(games[g]) /\ FeedOf(g) = "basketball_ncaab")
            => Val(games[g]).sport = FeedOf(g)

\* a bet placed on the NBA game is loaded as a college bet
C34_NbaBetLoadedAsNcaab ==
    \E i \in DOMAIN bet_outcomes :
        /\ FeedOf(bet_outcomes[i].game_id) = "basketball_nba"
        /\ SportLoadedFor(bet_outcomes[i]) = "basketball_ncaab"

----------------------------------------------------------------------------
(* src/live_odds_monitor/core/monitor.py: OddsMonitor._poll_once and
   _check_for_alerts (SpecMonitor).  The table odds_history, which
   record_odds also writes and nothing here reads, is left out. *)

\* MonitorConfig.spread_change_threshold (2.0: a change of 200%)
spread_change_threshold == 2

\* MonitorConfig.min_time_remaining_minutes
min_time_remaining_minutes == 10

\* MonitorConfig.sport
config_sport == "basketball_ncaab"

\* MonitorConfig.should_alert
should_alert(opening_spread, current_spread) ==
    IF IsNone(opening_spread) \/ IsNone(current_spread) THEN FALSE
    ELSE IF Val(opening_spread) = 0 THEN FALSE
    ELSE RatGE(PctChange(Val(current_spread), Val(opening_spread)),
               spread_change_threshold, 1)

\* GameScore.get_minutes_remaining for a score built by _update_game_score,
\* which sets neither period nor clock
get_minutes_remaining(score) ==
    IF score.is_completed THEN Some(0)
    ELSE IF ~score.is_live THEN None
    ELSE None

\* has_alert_been_sent that finds no row
has_alert_been_sent_never(tbl, game_id, alert_type) == FALSE

\* SELECT COUNT(*) FROM alerts WHERE game_id = ? AND alert_type = ?; count > 0
has_alert_been_sent(tbl, game_id, alert_type) ==
    \E i \in DOMAIN tbl :
        tbl[i].game_id = game_id /\ tbl[i].alert_type = alert_type

\* the tests of _check_for_alerts before the look-up of a saved alert
WarrantsSpreadAlert(game) ==
    IF IsNone(game.opening_odds) \/ IsNone(game.current_odds) THEN FALSE
    ELSE IF ~IsNone(game.score) /\ Val(game.score).is_completed THEN FALSE
    ELSE IF /\ ~IsNone(game.score)
            /\ ~IsNone(get_minutes_remaining(Val(game.score)))
            /\ Val(get_minutes_remaining(Val(game.score))) < min_time_remaining_minutes
         THEN FALSE
    ELSE /\ ~IsNone(Val(game.opening_odds).spread_home)
         /\ ~IsNone(Val(game.current_odds).spread_home)
         /\ should_alert(Val(game.opening_odds).spread_home,
                         Val(game.current_odds).spread_home)

\* _check_for_alerts: the list of alerts to send, each by its alert_type
check_for_alerts(game, tbl) ==
    IF WarrantsSpreadAlert(game) /\ ~has_alert_been_sent(tbl, game.id, "spread_change")
    THEN << [game_id |-> game.id, alert_type |-> "spread_change"] >>
    ELSE <<>>

\* Storage.save_alert: INSERT INTO alerts
save_alert(tbl, alert) ==
    Append(tbl, [game_id |-> alert.game_id, alert_type |-> alert.alert_type])

\* Storage.record_odds: the row it adds to odds_snapshots
record_odds(tbl, game_id, odds) ==
    Append(tbl, [ game_id |-> game_id, source |-> "live",
                  snapshot_type |-> "live", bookmaker |-> "fanduel",
                  spread_home |-> odds.spread_home,
                  home_score |-> None, away_score |-> None,
                  mins_remaining |-> None ])

\* _update_game_score: score_data is the entry of scores_data for the game
\* (None: no entry, the score is left as it is)
update_game_score(game, score_data) ==
    IF IsNone(score_data) THEN game
    ELSE [game EXCEPT !.score =
             Some([ is_completed |-> Val(score_data).completed,
                    is_live |-> ~Val(score_data).completed ])]

\* rounds of the loop of _poll_once in a behaviour
MaxMonitorRounds == 3

\* what _fetch_opening_odds returns for a new game: nothing, odds without a
\* spread, a spread of 0 and a home spread of -2.0
MonitorOpenings ==
    {None, Some([spread_home |-> None]), Some([spread_home |-> Some(0)]),
     Some([spread_home |-> Some(-Pts(2))])}

\* the spread_home of Odds.from_api_response(game_data): no fanduel spread,
\* -2.0 (no change), -6.0 (a change of 200%)
MonitorSpreads == {None, Some(-Pts(2)), Some(-Pts(6))}

\* the entry of scores_data for the game: none, a game in progress, a
\* completed game
MonitorScores == {None, Some([completed |-> FALSE]), Some([completed |-> TRUE])}

\* one game_data of odds_data with what the round obtains for it: whether
\* the watchlist holds one of its teams, the opening odds fetched if the game
\* is new, the current spread, its entry of scores_data and whether a
\* handler delivers an alert sent in this round
MonitorRounds(g) ==
    {[watched |-> FALSE, opening |-> None, spread_home |-> None,
      score_data |-> None, delivered |-> FALSE]}
    \cup [ watched : {TRUE},
           opening : IF IsNone(monitor_games[g]) THEN MonitorOpenings ELSE {None},
           spread_home : MonitorSpreads,
           score_data : MonitorScores,
           delivered : BOOLEAN ]

\* the body of `for game_data in odds_data` of _poll_once for game g
PollOnceGame(g, game_data) ==
    /\ Len(odds_snapshots) < MaxMonitorRounds
    /\ IF ~game_data.watched
       THEN UNCHANGED <<games, monitor_games, odds_snapshots, alerts, send_outcome, historical_odds_cache, storeVars>>
       ELSE LET new == IsNone(monitor_games[g])
                a == ApiGame(g)
                game0 == IF new
                         THEN [ id |-> g, opening_odds |-> game_data.opening,
                                current_odds |-> None, score |-> None ]
                         ELSE Val(monitor_games[g])
                current_odds == [spread_home |-> game_data.spread_home]
                game == update_game_score(
                            [game0 EXCEPT !.current_odds = Some(current_odds)],
                            game_data.score_data)
                found == check_for_alerts(game, alerts)
            IN  /\ games' = IF new
                            THEN save_game(games,
                                     Game(g, a.home_team, a.away_team,
                                          a.commence_time, Some(config_sport)))
                            ELSE games
                /\ monitor_games' = [monitor_games EXCEPT ![g] = Some(game)]
                /\ odds_snapshots' = record_odds(odds_snapshots, g, current_odds)
                /\ alerts' = IF found # <<>> /\ game_data.delivered
                             THEN save_alert(alerts, found[1])
                             ELSE alerts
                /\ send_outcome' =
                      [send_outcome EXCEPT ![g] =
                          IF found = <<>> THEN "none"
                          ELSE IF game_data.delivered THEN "sent" ELSE "failed"]
    /\ UNCHANGED <<pureVars, clock, game_results, bet_outcomes, bets,
                   outcome_writes, line_snapshots, first_opening, pc,
                   live_games, espn_game_cache, opening_lines,
                   opening_line_cache, stopped_games, alerted_games,
                   empty_poll_count, credit_stats, busy_polls, polls,
                   alert_polls, scores_final, obtained, simulated_bets,
                   historical_odds_cache, storeVars>>

\* the monitor process ends and a new OddsMonitor starts on the same
\* database: self.games is empty again
MonitorRestart ==
    /\ monitor_games' = [g \in GameIds |-> None]
    /\ UNCHANGED <<pureVars, clock, dbVars, snapVars, pc, live_games,
                   espn_game_cache, opening_lines, opening_line_cache,
                   stopped_games, alerted_games, empty_poll_count, credit_stats,
                   busy_polls, polls, alert_polls, scores_final, obtained,
                   simulated_bets, send_outcome, historical_odds_cache, storeVars>>

NextMonitor ==
    \/ \E g \in GameIds : \E game_data \in MonitorRounds(g) : PollOnceGame(g, game_data)
    \/ MonitorRestart

SpecMonitor == Init /\ [][NextMonitor]_vars

\* the spread_change alerts saved for game g
SpreadAlertsOf(g) ==
    { i \in DOMAIN alerts :
        alerts[i].game_id = g /\ alerts[i].alert_type = "spread_change" }

\* the step is a round of the loop of _poll_once for the watched game g
RoundOf(g) ==
    /\ odds_snapshots' # odds_snapshots
    /\ odds_snapshots'[Len(odds_snapshots')].game_id = g

\* C35: in OddsMonitor, over any sequence of polls at most one
\* spread_change alert is persisted per game: a new alert is produced only
\* if none has been saved for that game, and an alert is saved only when at
\* least one handler delivered it, so an alert that every handler failed to
\* send is produced again on the next qualifying poll.
C35_OneSpreadAlertPerGame ==
    [][\A g \in GameIds :
          /\ Cardinality(SpreadAlertsOf(g)') <= 1
          /\ (RoundOf(g) /\ send_outcome'[g] # "none") => SpreadAlertsOf(g) = {}
          /\ SpreadAlertsOf(g)' # SpreadAlertsOf(g) =>
                /\ RoundOf(g)
                /\ SpreadAlertsOf(g) = {}
                /\ send_outcome'[g] = "sent"
          /\ (RoundOf(g) /\ send_outcome'[g] = "failed") => alerts' = alerts
          /\ (/\ RoundOf(g)
              /\ SpreadAlertsOf(g) = {}
              /\ WarrantsSpreadAlert(Val(monitor_games'[g])))
                => send_outcome'[g] \in {"failed", "sent"}
      ]_vars

\* the rounds of the loop made for game g
RoundsOf(g) ==
    LET ForGame(row) == row.game_id = g IN Len(SelectSeq(odds_snapshots, ForGame))

\* C35 witness: the alert of g1 was produced in a round where no handler
\* delivered it, produced again in a later round and saved then, and a
\* round after that, which warrants it again, has produced none
C35_Witness ==
    /\ Cardinality(SpreadAlertsOf("g1")) = 1
    /\ send_outcome["g1"] = "none"
    /\ ~IsNone(monitor_games["g1"])
    /\ WarrantsSpreadAlert(Val(monitor_games["g1"]))
    /\ RoundsOf("g1") = 3
    /\ \A i \in DOMAIN odds_snapshots :
          odds_snapshots[i].spread_home = Some(-Pts(6))

----------------------------------------------------------------------------
(* scripts/backfill.py: main, one completed game of one run, with
   fetch_historical_odds_for_game and the cache of historical odds
   (SpecBackfill) *)

SNAPSHOT_OPENING == "opening"
SNAPSHOT_PREGAME == "pregame"
SnapshotTypes == {SNAPSHOT_OPENING, SNAPSHOT_PREGAME, SNAPSHOT_MIDGAME}

\* INSERT OR REPLACE INTO historical_odds_cache, bookmaker 'fanduel'; of the
\* row only spread_home is read again
cache_historical_odds(tbl, game_id, snapshot_type, spread_home) ==
    [tbl EXCEPT ![game_id][snapshot_type] = Some([spread_home |-> spread_home])]

\* SELECT * FROM historical_odds_cache WHERE game_id = ? AND snapshot_type = ?
\* AND bookmaker = 'fanduel'
get_cached_odds(tbl, game_id, snapshot_type) == tbl[game_id][snapshot_type]

\* a look-up that finds no cached odds for any game
has_cached_game_never(tbl, game_id) == FALSE

\* SELECT COUNT(*) FROM historical_odds_cache WHERE game_id = ?, > 0
has_cached_game(tbl, game_id) ==
    \E s \in SnapshotTypes : ~IsNone(tbl[game_id][s])

\* one of the three blocks of fetch_historical_odds_for_game: a cached row
\* is the result; otherwise the answer of the historical endpoint (None: an
\* exception or no "data") is cached and is the result
FetchSnapshot(acc, game_id, snapshot_type, answer) ==
    LET cached == get_cached_odds(acc.cache, game_id, snapshot_type)
    IN  IF ~IsNone(cached)
        THEN [acc EXCEPT !.results[snapshot_type] = cached]
        ELSE IF IsNone(answer) THEN acc
        ELSE [ cache   |-> cache_historical_odds(acc.cache, game_id,
                               snapshot_type, Val(answer).spread_home),
               results |-> [acc.results EXCEPT ![snapshot_type] =
                               Some([spread_home |-> Val(answer).spread_home])] ]

\* fetch_historical_odds_for_game: the cache after the call and the dict
\* returned (None: the key is absent)
fetch_historical_odds_for_game(tbl, game_id, fetched) ==
    LET start == [cache |-> tbl, results |-> [s \in SnapshotTypes |-> None]]
        opened == FetchSnapshot(start, game_id, SNAPSHOT_OPENING, fetched[SNAPSHOT_OPENING])
        pre == FetchSnapshot(opened, game_id, SNAPSHOT_PREGAME, fetched[SNAPSHOT_PREGAME])
    IN  FetchSnapshot(pre, game_id, SNAPSHOT_MIDGAME, fetched[SNAPSHOT_MIDGAME])

\* odds_data.get(key, {}).get("spread_home")
SpreadHomeOf(odds_data, key) ==
    IF IsNone(odds_data[key]) THEN None ELSE Val(odds_data[key]).spread_home

\* home_score and away_score after the loop over game["scores"]: none
\* parsed, or both
BackfillScores ==
    { [home |-> None, away |-> None],
      [home |-> Some(70), away |-> Some(72)],
      [home |-> Some(72), away |-> Some(70)] }

\* spread_home of a midgame snapshot the endpoint returns: null, -1.0 (no
\* change), -1.5 (a change of exactly 50%), -3.0 (a change of 200%)
FetchedMidgames == {None, Some(-Pts(1)), Some(-3), Some(-Pts(3))}

\* what the historical endpoint answers for the three snapshots of a game:
\* for each nothing, or a snapshot with a spread_home
BackfillFetches ==
    { [s \in SnapshotTypes |->
          CASE s = SNAPSHOT_OPENING -> o
            [] s = SNAPSHOT_PREGAME -> p
            [] s = SNAPSHOT_MIDGAME -> m] :
        o \in {None} \cup { Some([spread_home |-> x]) : x \in BackfillOpenings },
        p \in {None, Some([spread_home |-> Some(-Pts(1))])},
        m \in {None} \cup { Some([spread_home |-> x]) : x \in FetchedMidgames } }

\* the body of `for game in games` of main for the completed game g of a
\* run (a run holds a game once: fetch_completed_games removes duplicates)
BackfillGame(g, scores, fetched) ==
    IF has_cached_game(historical_odds_cache, g)
    THEN UNCHANGED vars
    ELSE LET a == ApiGame(g)
             game_obj == Game(a.id, a.home_team, a.away_team, a.commence_time,
                              Some(a.sport))
             known == ~IsNone(scores.home) /\ ~IsNone(scores.away)
             final_margin == Val(scores.home) - Val(scores.away)
             f == fetch_historical_odds_for_game(historical_odds_cache, g, fetched)
             odds_data == f.results
             truthy == \E s \in SnapshotTypes : ~IsNone(odds_data[s])
             t0 == [legacy |-> simulated_bets, unified |-> bets]
             t == IF known /\ truthy
                  THEN simulate_bets_for_game(t0, g, a.sport, a.home_team,
                           a.away_team, SpreadHomeOf(odds_data, SNAPSHOT_OPENING),
                           SpreadHomeOf(odds_data, SNAPSHOT_MIDGAME), final_margin)
                  ELSE t0
         IN  /\ games' = save_game(games, game_obj)
             /\ game_results' = IF known
                                THEN save_game_result(game_results, g,
                                         Val(scores.home), Val(scores.away))
                                ELSE game_results
             /\ historical_odds_cache' = f.cache
             /\ simulated_bets' = t.legacy
             /\ bets' = t.unified
             /\ UNCHANGED <<pureVars, clock, snapVars, alerts, bet_outcomes,
                            outcome_writes, pc, live_games, espn_game_cache,
                            opening_lines, opening_line_cache, stopped_games,
                            alerted_games, empty_poll_count, credit_stats,
                            busy_polls, polls, alert_polls, scores_final,
                            obtained, monitor_games, send_outcome, storeVars>>

NextBackfill ==
    \E g \in GameIds : \E scores \in BackfillScores :
       \E fetched \in BackfillFetches : BackfillGame(g, scores, fetched)

SpecBackfill == Init /\ [][NextBackfill]_vars

\* the ids of the simulated bets of game g
SimulatedBetsOf(g) ==
    { i \in DOMAIN simulated_bets : simulated_bets[i].game_id = g }

\* the simulated bets of game g with the strategy of threshold k
BetsAtThreshold(g, k) ==
    { i \in SimulatedBetsOf(g) :
        simulated_bets[i].strategy = StrategyName(THRESHOLDS[k]) }

\* pct_change of the answers `fetched` meets threshold k
MeetsThreshold(fetched, k) ==
    LET pct == calculate_spread_change(SpreadHomeOf(fetched, SNAPSHOT_OPENING),
                                       SpreadHomeOf(fetched, SNAPSHOT_MIDGAME))
    IN  /\ ~IsNone(pct)
        /\ RatGE(Val(pct), THRESHOLDS[k].num, THRESHOLDS[k].den)

\* the answers of the historical endpoint in a step that processes game g,
\* not cached before: each answer is cached as it came
AnswersCached(g) == historical_odds_cache'[g]

\* both final scores of the game were parsed
ScoresKnown(scores) == ~IsNone(scores.home) /\ ~IsNone(scores.away)

\* in every step: the bets of a game change only when the game had no cached
\* odds and no bets before and has cached odds after, and cached odds stay
\* (so the bets of a game are created by at most one run)
BetsCreatedOnce ==
    \A g \in GameIds :
       /\ has_cached_game(historical_odds_cache, g)
             => /\ has_cached_game(historical_odds_cache', g)
                /\ SimulatedBetsOf(g)' = SimulatedBetsOf(g)
       /\ SimulatedBetsOf(g)' # SimulatedBetsOf(g)
             => /\ SimulatedBetsOf(g) = {}
                /\ ~has_cached_game(historical_odds_cache, g)
                /\ has_cached_game(historical_odds_cache', g)

\* C36 (as amended): across any number of backfill runs the simulated bets of
\* a game are created in at most one run: a game with any cached historical
\* odds is skipped, and a run that processes a game not yet cached creates,
\* when both final scores of the game are known, exactly one bet per threshold
\* of THRESHOLDS that pct_change meets, and none when a final score is
\* missing, when the opening or the midgame home spread is missing or when the
\* opening spread is 0
C36_BetsCreatedInOneRun ==
    [][/\ BetsCreatedOnce
       /\ \A g \in GameIds : \A scores \in BackfillScores :
             LET fetched == AnswersCached(g) IN
                (~has_cached_game(historical_odds_cache, g)
                    /\ BackfillGame(g, scores, fetched))
                => /\ \A k \in DOMAIN THRESHOLDS :
                         Cardinality(BetsAtThreshold(g, k)') =
                            IF ScoresKnown(scores) /\ MeetsThreshold(fetched, k)
                            THEN 1 ELSE 0
                   /\ SimulatedBetsOf(g)' =
                         UNION { BetsAtThreshold(g, k)' : k \in DOMAIN THRESHOLDS }
                   /\ ( \/ ~ScoresKnown(scores)
                        \/ IsNone(SpreadHomeOf(fetched, SNAPSHOT_OPENING))
                        \/ IsNone(SpreadHomeOf(fetched, SNAPSHOT_MIDGAME))
                        \/ SpreadHomeOf(fetched, SNAPSHOT_OPENING) = Some(0) )
                      => SimulatedBetsOf(g)' = {}
      ]_vars

\* C36 (as stated): a run that processes a game not yet cached creates exactly
\* one bet per threshold of THRESHOLDS that pct_change meets, whether or not
\* the final scores of the game are known
C36_OneBetPerThresholdMet ==
    [][\A g \in GameIds : \A scores \in BackfillScores :
          LET fetched == AnswersCached(g) IN
             (~has_cached_game(historical_odds_cache, g)
                 /\ BackfillGame(g, scores, fetched))
             => \A k \in DOMAIN THRESHOLDS :
                   Cardinality(BetsAtThreshold(g, k)') =
                      IF MeetsThreshold(fetched, k) THEN 1 ELSE 0
      ]_vars

\* C36 witness: g1 was processed with an opening of -1.0 and a midgame of
\* -1.5 and has the one bet of the 50% threshold; g2 was processed with an
\* opening of 0 and has cached odds and no bet
C36_Witness ==
    /\ historical_odds_cache["g1"][SNAPSHOT_OPENING] = Some([spread_home |-> Some(-Pts(1))])
    /\ historical_odds_cache["g1"][SNAPSHOT_MIDGAME] = Some([spread_home |-> Some(-3)])
    /\ Cardinality(SimulatedBetsOf("g1")) = 1
    /\ \A i \in SimulatedBetsOf("g1") :
          /\ simulated_bets[i].strategy = "spread_change_50pct"
          /\ ~IsNone(simulated_bets[i].covered)
    /\ historical_odds_cache["g2"][SNAPSHOT_OPENING] = Some([spread_home |-> Some(0)])
    /\ historical_odds_cache["g2"][SNAPSHOT_MIDGAME] = Some([spread_home |-> Some(-Pts(3))])
    /\ ~IsNone(game_results["g2"])
    /\ SimulatedBetsOf("g2") = {}

\* a game the run found cached odds of nothing for but whose scores were
\* missing has no bet although its line moved by 200%
C36_NoBetWithoutScores ==
    /\ historical_odds_cache["g1"][SNAPSHOT_OPENING] = Some([spread_home |-> Some(-Pts(1))])
    /\ historical_odds_cache["g1"][SNAPSHOT_MIDGAME] = Some([spread_home |-> Some(-Pts(3))])
    /\ IsNone(game_results["g1"])
    /\ SimulatedBetsOf("g1") = {}

----------------------------------------------------------------------------
(* src/live_odds_monitor/data_store.py: OpeningLinesStore (SpecStore).
   A line is an OpeningLine with its game_id, sport, season, spread_home and
   source; a DataFrame and a Parquet file are the sequence of their rows, a
   row and a line's to_dict() the record of the same fields. *)

\* self._batch_size = 10
batch_size == 10

\* the opening lines saved: as OddsMonitor._save_opening_line builds them,
\* every game under the sport of the configuration and the season of its
\* commence_time, at -1.0 from the historical API or at -2.0 migrated
StoreLines ==
    { [ game_id |-> g, sport |-> config_sport, season |-> "2025-2026",
        spread_home |-> x.spread_home, source |-> x.source ] :
        g \in GameIds,
        x \in { [spread_home |-> -Pts(1), source |-> "historical_api"],
                [spread_home |-> -Pts(2), source |-> "migrated"] } }

\* the (sport, season) partitions of these lines
Partitions == { <<l.sport, l.season>> : l \in StoreLines }

\* get(game_id): the entry of the index, or None
get(store, game_id) == store.index[game_id]

\* DataFrame.drop_duplicates(subset=['game_id'], keep='first')
RECURSIVE DropDuplicatesKeepFirst(_, _)
DropDuplicatesKeepFirst(rows, seen) ==
    IF rows = <<>> THEN <<>>
    ELSE IF Head(rows).game_id \in seen
         THEN DropDuplicatesKeepFirst(Tail(rows), seen)
         ELSE <<Head(rows)>> \o
              DropDuplicatesKeepFirst(Tail(rows), seen \cup {Head(rows).game_id})

\* the DataFrame _append_to_parquet writes to the file of partition key and
\* keeps in the cache: the cached frame, else the file, else an empty frame,
\* then the new lines, without the later rows of a game_id; the new lines
\* alone when the existing frame is empty
append_to_parquet(store, key, lines) ==
    LET existing_df == IF ~IsNone(store.cache[key]) THEN Val(store.cache[key])
                       ELSE IF ~IsNone(store.files[key]) THEN Val(store.files[key])
                       ELSE <<>>
    IN  IF existing_df # <<>>
        THEN DropDuplicatesKeepFirst(existing_df \o lines, {})
        ELSE lines

\* the pending lines of partition key, in their order
GroupOf(pending, key) ==
    LET InKey(l) == <<l.sport, l.season>> = key
    IN  SelectSeq(pending, InKey)

\* _flush: every partition with pending lines is written, then the pending
\* batch is cleared
flush(store) ==
    IF store.pending = <<>> THEN store
    ELSE [ store EXCEPT
             !.files = [k \in Partitions |->
                          IF GroupOf(store.pending, k) = <<>> THEN store.files[k]
                          ELSE Some(append_to_parquet(store, k,
                                        GroupOf(store.pending, k)))],
             !.cache = [k \in Partitions |->
                          IF GroupOf(store.pending, k) = <<>> THEN store.cache[k]
                          ELSE Some(append_to_parquet(store, k,
                                        GroupOf(store.pending, k)))],
             !.pending = <<>> ]

\* save(line, flush)
save(store, line, flush_now) ==
    IF ~IsNone(store.index[line.game_id]) THEN store
    ELSE LET added == [store EXCEPT !.index[line.game_id] = Some(line),
                                    !.pending = Append(store.pending, line)]
         IN  IF flush_now \/ Len(added.pending) >= batch_size
             THEN flush(added) ELSE added

\* the index after `for _, row in df.iterrows(): self._index[row['game_id']]
\* = row.to_dict()`
RECURSIVE IndexRows(_, _)
IndexRows(index, rows) ==
    IF rows = <<>> THEN index
    ELSE IndexRows([index EXCEPT ![Head(rows).game_id] = Some(Head(rows))],
                   Tail(rows))

\* _load_into_cache(sport, season)
load_into_cache(store, key) ==
    IF ~IsNone(store.cache[key]) THEN store
    ELSE LET df == IF ~IsNone(store.files[key]) THEN Val(store.files[key]) ELSE <<>>
         IN  [store EXCEPT !.cache[key] = Some(df),
                           !.index = IndexRows(store.index, df)]

\* close()
close(store) == flush(store)

\* OpeningLinesStore(base_path) on the directory of `store`
NewStore(store) ==
    [ files   |-> store.files,
      cache   |-> [k \in Partitions |-> None],
      index   |-> [g \in GameIds |-> None],
      pending |-> <<>> ]

StoreUnchanged ==
    UNCHANGED <<pureVars, clock, dbVars, snapVars, processVars>>

\* a call of save
Save(line, flush_now) ==
    /\ lines_store' = save(lines_store, line, flush_now)
    /\ first_save' = IF IsNone(first_save[line.game_id])
                     THEN [first_save EXCEPT ![line.game_id] = Some(line)]
                     ELSE first_save
    /\ StoreUnchanged

\* preload, load_season or a get with sport and season of a game not in the
\* index: the partition is loaded
LoadIntoCache(key) ==
    /\ lines_store' = load_into_cache(lines_store, key)
    /\ lines_store' # lines_store
    /\ UNCHANGED first_save
    /\ StoreUnchanged

\* a call of close
Close ==
    /\ lines_store' = close(lines_store)
    /\ lines_store' # lines_store
    /\ UNCHANGED first_save
    /\ StoreUnchanged

\* the process shuts the store down with close() (monitor.py,
\* _handle_shutdown) and a new process opens a store on the same directory
Reopen ==
    /\ lines_store' = NewStore(close(lines_store))
    /\ lines_store' # lines_store
    /\ first_save' = [g \in GameIds |-> None]
    /\ StoreUnchanged

NextStore ==
    \/ \E line \in StoreLines : \E flush_now \in BOOLEAN : Save(line, flush_now)
    \/ \E key \in Partitions : LoadIntoCache(key)
    \/ Close
    \/ Reopen

SpecStore == Init /\ [][NextStore]_vars

\* one store object from an empty directory to the end
NextStoreOnce ==
    \/ \E line \in StoreLines : \E flush_now \in BOOLEAN : Save(line, flush_now)
    \/ \E key \in Partitions : LoadIntoCache(key)
    \/ Close

SpecStoreOnce == Init /\ [][NextStoreOnce]_vars

\* line l is a row of the Parquet file of its partition
Written(store, l) ==
    LET key == <<l.sport, l.season>>
    IN  /\ ~IsNone(store.files[key])
        /\ \E j \in DOMAIN Val(store.files[key]) : Val(store.files[key])[j] = l

\* C37: OpeningLinesStore is first-write-wins: after every step get(game_id)
\* returns the line of the first save for that game_id, a later save for the
\* same game_id changes neither the index nor the pending batch, and after
\* close() every line that was pending is written to its file
C37_FirstWriteWins ==
    [][/\ \A g \in GameIds :
             ~IsNone(first_save'[g]) => get(lines_store', g) = first_save'[g]
       /\ \A line \in StoreLines : \A flush_now \in BOOLEAN :
             (Save(line, flush_now) /\ ~IsNone(first_save[line.game_id]))
             => /\ lines_store'.index = lines_store.index
                /\ lines_store'.pending = lines_store.pending
       /\ (Close \/ Reopen)
             => \A i \in DOMAIN lines_store.pending :
                   Written(lines_store', lines_store.pending[i])
      ]_vars

\* a store holds in its index, for a game, another line than the file of
\* the partition, with nothing pending: the line get returns is written
\* nowhere
C37_IndexedLineNotOnDisk ==
    \E g \in GameIds :
       /\ lines_store.pending = <<>>
       /\ ~IsNone(get(lines_store, g))
       /\ get(lines_store, g) = first_save[g]
       /\ ~Written(lines_store, Val(get(lines_store, g)))
       /\ \E l \in StoreLines : l.game_id = g /\ Written(lines_store, l)

\* what holds with any number of store objects on the directory: a file
\* never holds two rows of a game, and a row once written stays as it is
C37_FileKeepsFirstRow ==
    [][\A key \in Partitions :
          /\ ~IsNone(lines_store'.files[key]) =>
                \A i, j \in DOMAIN Val(lines_store'.files[key]) :
                   Val(lines_store'.files[key])[i].game_id =
                      Val(lines_store'.files[key])[j].game_id => i = j
          /\ \A l \in StoreLines : Written(lines_store, l) => Written(lines_store', l)
      ]_vars

====
